---- MODULE Spec2Model ----
(***************************************************************************)
(* Dwell-time session reconstruction (backend/app/services/               *)
(* dwell_time_engine.py) over the camera_events and person_sessions       *)
(* tables (backend/app/models/camera_events.py).                          *)
(*                                                                         *)
(* Timestamps are counted in ticks; TicksPerSecond ticks make one second, *)
(* so that a timestamp can fall between two whole seconds, as pandas and  *)
(* DateTime values do.                                                     *)
(***************************************************************************)
EXTENDS Integers, Sequences, FiniteSets, Bags, TLC

VARIABLES
    \* ---- one run of the two-pointer matcher over one group (SpecMatch)
    group,        \* the (person_id, camera_id) key of the group
    entries,      \* group[group['event_type'] == 'entry'], by_time by timestamp
    exits,        \* group[group['event_type'] == 'exit'], by_time by timestamp
    entry_idx,    \* entry cursor
    exit_idx,     \* exit cursor
    pairs,        \* the pairs appended so far
    pc,           \* "match": inside the while loop; "done": sessions built
    result,       \* the sessions _calculate_sessions built from the pairs
    discarded,    \* history: ids of the exits the cursor passed without pairing
    iterations,   \* history: number of loop iterations executed
    \* ---- the database and the calls of calculate_dwell_times (Spec)
    events,       \* table camera_events: the bag of its rows
    sessions,     \* table person_sessions: the bag of its rows
    autoflush,    \* the Session's autoflush setting (core/database.py)
    run,          \* the last call of calculate_dwell_times and what it returned
    cache,        \* table analytics_cache: its rows
    workers,      \* the concurrent calls of calculate_dwell_times (SpecConcurrent)
    \* ---- the HTTP endpoints and the analytics calls
    request,      \* the last request: its endpoint and parameters
    response      \* what the last request answered

matchVars == <<group, entries, exits, entry_idx, exit_idx, pairs, pc, result,
               discarded, iterations>>

dbVars == <<events, sessions, autoflush, run, cache, workers>>

apiVars == <<request, response>>

vars == <<matchVars, dbVars, apiVars>>

-----------------------------------------------------------------------------
(* Bounds *)

MaxTime == 3          \* timestamps are the ticks 0..MaxTime
TicksPerSecond == 2   \* resolution of a timestamp below one second
MaxRows == 4          \* rows of one group's frame handed to the matcher
MaxEvents == 4        \* rows of camera_events

Times == 0..MaxTime

NULL == -1            \* None / SQL NULL in a date or number
NONE == "None"        \* None / SQL NULL in a string

\* The (person_id, camera_id) keys of the events, in the ascending order in
\* which ORDER BY and groupby visit them.
GroupKeys == << <<"a", "b_c">>, <<"a_b", "c">> >>

EventTypes == {"entry", "exit"}

-----------------------------------------------------------------------------
(* Sequences *)

Range(s) == {s[i] : i \in 1..Len(s)}

Min2(a, b) == IF a <= b THEN a ELSE b

\* row placed behind every row of `by_time` whose timestamp is not later
InsertByTimestamp(row, by_time) ==
    LET k == Cardinality({i \in 1..Len(by_time) : by_time[i].timestamp <= row.timestamp})
    IN  SubSeq(by_time, 1, k) \o <<row>> \o SubSeq(by_time, k + 1, Len(by_time))

RECURSIVE sort_values(_)
sort_values(frame) ==
    IF frame = <<>> THEN <<>>
    ELSE InsertByTimestamp(frame[Len(frame)], sort_values(SubSeq(frame, 1, Len(frame) - 1)))

-----------------------------------------------------------------------------
(* _match_entries_exits *)

\* line 106: the while condition
LoopCond(m) == m.entry_idx < Len(m.entries) /\ m.exit_idx < Len(m.exits)

\* line 111
ExitBeforeEntry(entry, exit_event) == exit_event.timestamp < entry.timestamp

\* line 116
EntryBeforeExit(entry, exit_event) == entry.timestamp < exit_event.timestamp

\* MatchStep with a defect: a pairing leaves the exit cursor where it is, so
\* the exit is offered to the next entry again.
MatchStep_reuses_exit(m) ==
    LET entry == m.entries[m.entry_idx + 1]
        exit_event == m.exits[m.exit_idx + 1]
    IN  IF ExitBeforeEntry(entry, exit_event)
        THEN [m EXCEPT !.exit_idx = @ + 1]
        ELSE IF EntryBeforeExit(entry, exit_event)
             THEN [m EXCEPT !.pairs = Append(@, <<entry, exit_event>>),
                            !.entry_idx = @ + 1]
             ELSE [m EXCEPT !.entry_idx = @ + 1]

\* MatchStep with a defect: an exit that precedes the entry takes the entry
\* with it (both cursors advance).
MatchStep_orphan_drops_entry(m) ==
    LET entry == m.entries[m.entry_idx + 1]
        exit_event == m.exits[m.exit_idx + 1]
    IN  IF ExitBeforeEntry(entry, exit_event)
        THEN [m EXCEPT !.exit_idx = @ + 1, !.entry_idx = @ + 1]
        ELSE IF EntryBeforeExit(entry, exit_event)
             THEN [m EXCEPT !.pairs = Append(@, <<entry, exit_event>>),
                            !.entry_idx = @ + 1,
                            !.exit_idx = @ + 1]
             ELSE [m EXCEPT !.entry_idx = @ + 1]

\* MatchStep with a defect: on equal timestamps neither cursor moves.
MatchStep_tie_stays(m) ==
    LET entry == m.entries[m.entry_idx + 1]
        exit_event == m.exits[m.exit_idx + 1]
    IN  IF ExitBeforeEntry(entry, exit_event)
        THEN [m EXCEPT !.exit_idx = @ + 1]
        ELSE IF EntryBeforeExit(entry, exit_event)
             THEN [m EXCEPT !.pairs = Append(@, <<entry, exit_event>>),
                            !.entry_idx = @ + 1,
                            !.exit_idx = @ + 1]
             ELSE m

\* lines 107-122: one iteration of the loop
MatchStep(m) ==
    LET entry == m.entries[m.entry_idx + 1]
        exit_event == m.exits[m.exit_idx + 1]
    IN  IF ExitBeforeEntry(entry, exit_event)
        THEN [m EXCEPT !.exit_idx = @ + 1]
        ELSE IF EntryBeforeExit(entry, exit_event)
             THEN [m EXCEPT !.pairs = Append(@, <<entry, exit_event>>),
                            !.entry_idx = @ + 1,
                            !.exit_idx = @ + 1]
             ELSE [m EXCEPT !.entry_idx = @ + 1]

RECURSIVE MatchLoop(_)
MatchLoop(m) == IF LoopCond(m) THEN MatchLoop(MatchStep(m)) ELSE m

_match_entries_exits(es, xs) ==
    MatchLoop([entries |-> es, exits |-> xs, entry_idx |-> 0, exit_idx |-> 0,
               pairs |-> <<>>]).pairs

-----------------------------------------------------------------------------
(* _calculate_sessions *)

\* dwell_duration with a defect: the seconds are rounded up, not truncated.
dwell_duration_rounded_up(entry, exit_event) ==
    LET d == exit_event.timestamp - entry.timestamp
    IN  IF d >= 0 THEN (d + TicksPerSecond - 1) \div TicksPerSecond
        ELSE -((-d) \div TicksPerSecond)

\* line 86, int((exit - entry).total_seconds()): int() truncates towards zero
dwell_duration(entry, exit_event) ==
    LET d == exit_event.timestamp - entry.timestamp
    IN  IF d >= 0 THEN d \div TicksPerSecond ELSE -((-d) \div TicksPerSecond)

\* strftime('%Y%m%d_%H%M%S'): the timestamp down to its whole second
strftime(timestamp) == ToString(timestamp \div TicksPerSecond)

session_id(person_id, camera_id, entry) ==
    person_id \o "_" \o camera_id \o "_" \o strftime(entry.timestamp)

\* lines 86-95
SessionOf(person_id, camera_id, entry, exit_event) ==
    [session_id |-> session_id(person_id, camera_id, entry),
     person_id |-> person_id,
     camera_id |-> camera_id,
     entry_time |-> entry.timestamp,
     exit_time |-> exit_event.timestamp,
     dwell_duration |-> dwell_duration(entry, exit_event)]

\* lines 85-96 for one group
SessionsOfPairs(person_id, camera_id, session_pairs) ==
    [i \in 1..Len(session_pairs) |->
        SessionOf(person_id, camera_id, session_pairs[i][1], session_pairs[i][2])]

IsEntry(row) == row.event_type = "entry"
IsExit(row) == row.event_type = "exit"

\* lines 76-83 for one group
GroupPairs(rows) ==
    LET by_time == sort_values(rows)
    IN  _match_entries_exits(SelectSeq(by_time, IsEntry), SelectSeq(by_time, IsExit))

-----------------------------------------------------------------------------
(* calculate_dwell_times: the query and the frame *)

\* lines 26-29: a bound that is absent (None) filters nothing
InWindow(event, start_date, end_date) ==
    /\ (start_date # NULL => event.processed_timestamp >= start_date)
    /\ (end_date # NULL => event.processed_timestamp <= end_date)

\* lines 39-46: the frame row of an event
FrameRow(event) ==
    [id |-> event.id,
     timestamp |-> event.processed_timestamp,
     person_id |-> event.person_id,
     camera_id |-> event.camera_id,
     event_type |-> event.event_type,
     session_id |-> event.session_id]

HasKey(row, key) == row.person_id = key[1] /\ row.camera_id = key[2]

\* rows of the keys GroupKeys[k..], key after key
RECURSIVE RowsFromKey(_, _)
RowsFromKey(rows, k) ==
    IF k > Len(GroupKeys) THEN <<>>
    ELSE sort_values(SelectSeq(rows, LAMBDA r : HasKey(r, GroupKeys[k])))
         \o RowsFromKey(rows, k + 1)

\* EventsFrame with a defect: the bounds of the window filter nothing.
EventsFrame_whole_table(table, start_date, end_date) ==
    RowsFromKey([i \in 1..Len(table) |-> FrameRow(table[i])], 1)

\* lines 25-48: the events of the window, in the order of ORDER BY person_id,
\* camera_id, processed_timestamp (rows that tie keep primary-key order)
EventsFrame(table, start_date, end_date) ==
    LET hit == SelectSeq(table, LAMBDA e : InWindow(e, start_date, end_date))
    IN  RowsFromKey([i \in 1..Len(hit) |-> FrameRow(hit[i])], 1)

\* lines 74-96: the groups of groupby(['person_id', 'camera_id']), key after key
RECURSIVE SessionsFromKey(_, _)
SessionsFromKey(events_df, k) ==
    IF k > Len(GroupKeys) THEN <<>>
    ELSE LET key == GroupKeys[k]
             rows == SelectSeq(events_df, LAMBDA r : HasKey(r, key))
         IN  SessionsOfPairs(key[1], key[2], GroupPairs(rows))
             \o SessionsFromKey(events_df, k + 1)

_calculate_sessions(events_df) == SessionsFromKey(events_df, 1)

-----------------------------------------------------------------------------
(* _store_sessions *)

\* HasSession with a defect: the existing row is never found.
HasSession_never(table, sid) == FALSE

\* lines 132-136: a row with that session_id exists
HasSession(table, sid) == \E i \in 1..Len(table) : table[i].session_id = sid

\* .first(): the first row with that session_id
FirstSession(table, sid) ==
    CHOOSE i \in 1..Len(table) :
        /\ table[i].session_id = sid
        /\ \A j \in 1..(i - 1) : table[j].session_id # sid

\* lines 142-149
PersonSession(session_data) ==
    [session_id |-> session_data.session_id,
     person_id |-> session_data.person_id,
     camera_id |-> session_data.camera_id,
     entry_time |-> session_data.entry_time,
     exit_time |-> session_data.exit_time,
     dwell_duration |-> session_data.dwell_duration]

\* lines 136-151: the row exists and is updated, or a new row is added
StoreOne(visible, pending, session_data) ==
    IF HasSession(visible, session_data.session_id)
    THEN [table |-> [visible EXCEPT
                        ![FirstSession(visible, session_data.session_id)] =
                            [@ EXCEPT !.exit_time = session_data.exit_time,
                                      !.dwell_duration = session_data.dwell_duration]],
          pending |-> pending]
    ELSE [table |-> visible,
          pending |-> Append(pending, PersonSession(session_data))]

\* lines 130-151. `table` holds the rows a query sees, `pending` the added rows
\* not flushed yet: with autoflush the query of line 132 flushes them first.
RECURSIVE StoreLoop(_, _, _, _)
StoreLoop(table, pending, todo, flush) ==
    IF todo = <<>> THEN [table |-> table, pending |-> pending]
    ELSE LET visible == IF flush THEN table \o pending ELSE table
             waiting == IF flush THEN <<>> ELSE pending
             next == StoreOne(visible, waiting, Head(todo))
         IN  StoreLoop(next.table, next.pending, Tail(todo), flush)

\* session_id is unique=True (camera_events.py line 101)
UniqueSessionIds(table) ==
    \A i, j \in 1..Len(table) : table[i].session_id = table[j].session_id => i = j

\* lines 126-154; the commit of line 153 flushes what is pending and fails on
\* a repeated session_id, and then nothing of the transaction is committed
_store_sessions(table, session_list, flush) ==
    LET done == StoreLoop(table, <<>>, session_list, flush)
        final == done.table \o done.pending
    IN  IF UniqueSessionIds(final)
        THEN [raised |-> FALSE, table |-> final]
        ELSE [raised |-> TRUE, table |-> table]

-----------------------------------------------------------------------------
(* _update_events_with_dwell_times *)

\* lines 160-172 for one session
UpdateEventsOf(table, session) ==
    [i \in 1..Len(table) |->
        IF /\ table[i].person_id = session.person_id
           /\ table[i].camera_id = session.camera_id
           /\ table[i].processed_timestamp >= session.entry_time
           /\ table[i].processed_timestamp <= session.exit_time
        THEN [table[i] EXCEPT !.dwell_duration = session.dwell_duration,
                              !.session_id = session.session_id]
        ELSE table[i]]

RECURSIVE _update_events_with_dwell_times(_, _)
_update_events_with_dwell_times(table, session_list) ==
    IF session_list = <<>> THEN table
    ELSE _update_events_with_dwell_times(UpdateEventsOf(table, Head(session_list)),
                                         Tail(session_list))

-----------------------------------------------------------------------------
(* _calculate_summary_stats *)

RECURSIVE SumSeq(_)
SumSeq(s) == IF s = <<>> THEN 0 ELSE Head(s) + SumSeq(Tail(s))

InsertInt(x, s) ==
    LET k == Cardinality({i \in 1..Len(s) : s[i] <= x})
    IN  SubSeq(s, 1, k) \o <<x>> \o SubSeq(s, k + 1, Len(s))

RECURSIVE sorted(_)
sorted(s) == IF s = <<>> THEN <<>> ELSE InsertInt(Head(s), sorted(Tail(s)))

\* lines 176-197; the average is kept as the pair (sum, count) it divides
_calculate_summary_stats(session_list) ==
    IF session_list = <<>>
    THEN [sessions_processed |-> 0, total_dwell_time |-> 0,
          average_dwell_time |-> <<0, 1>>, median_dwell_time |-> 0,
          max_dwell_time |-> 0, min_dwell_time |-> 0]
    ELSE LET dwell_times == [i \in 1..Len(session_list) |-> session_list[i].dwell_duration]
             ordered == sorted(dwell_times)
         IN  [sessions_processed |-> Len(session_list),
              total_dwell_time |-> SumSeq(dwell_times),
              average_dwell_time |-> <<SumSeq(dwell_times), Len(dwell_times)>>,
              median_dwell_time |-> ordered[(Len(dwell_times) \div 2) + 1],
              max_dwell_time |-> ordered[Len(ordered)],
              min_dwell_time |-> ordered[1]]

-----------------------------------------------------------------------------
(* calculate_dwell_times *)

\* where an exception of the database strikes a call: nowhere, inside
\* _store_sessions (before its commit ends), inside
\* _update_events_with_dwell_times
Faults == {"none", "store", "update"}

\* line 67
Raised(db, events_df, session_list) ==
    [events |-> db.events, sessions |-> db.sessions,
     outcome |-> "ProcessingError", summary |-> <<>>,
     events_df |-> events_df, session_list |-> session_list]

\* lines 18-67, on the database db = [events, sessions, autoflush]
calculate_dwell_times(db, start_date, end_date, fault) ==
    LET events_df == EventsFrame(db.events, start_date, end_date)
        session_list == _calculate_sessions(events_df)
        stored == _store_sessions(db.sessions, session_list, db.autoflush)
    IN  IF events_df = <<>>
        THEN [events |-> db.events, sessions |-> db.sessions,
              outcome |-> "returned",
              summary |-> [sessions_processed |-> 0, total_dwell_time |-> 0,
                           errors |-> <<>>],
              events_df |-> events_df, session_list |-> <<>>]
        ELSE IF fault = "store" \/ stored.raised
        THEN Raised(db, events_df, session_list)
        ELSE IF fault = "update"
        THEN [Raised(db, events_df, session_list) EXCEPT !.sessions = stored.table]
        ELSE [events |-> _update_events_with_dwell_times(db.events, session_list),
              sessions |-> stored.table,
              outcome |-> "returned",
              summary |-> _calculate_summary_stats(session_list),
              events_df |-> events_df, session_list |-> session_list]

-----------------------------------------------------------------------------
(* Spec: ingestion of events and calls of calculate_dwell_times *)

Dates == Times \cup {NULL}

\* What the last call answered.
NoRun == [outcome |-> "none", summary |-> <<>>]

\* No request was made yet.
NoRequest == [endpoint |-> "none"]
NoResponse == [status |-> 0, detail |-> NONE, body |-> <<>>]

\* A table is kept as the bag of its rows without the primary key: no code
\* reads a primary key or stores one in another row (events are addressed by
\* person, camera and timestamp, sessions by session_id), and a query without
\* ORDER BY returns the rows in an order it does not promise.
RECURSIVE BagToSeq(_)
BagToSeq(B) ==
    IF B = EmptyBag THEN <<>>
    ELSE LET row == CHOOSE r \in BagToSet(B) : TRUE
         IN  <<row>> \o BagToSeq(B (-) SetToBag({row}))

RECURSIVE SeqToBag(_)
SeqToBag(s) ==
    IF s = <<>> THEN EmptyBag ELSE SetToBag({Head(s)}) (+) SeqToBag(Tail(s))

\* camera_events.py lines 5-82: the columns of CameraEvent the engine reads or
\* writes
CameraEvent(id, person_id, camera_id, event_type, processed_timestamp, sid, dwell) ==
    [id |-> id,
     person_id |-> person_id,
     camera_id |-> camera_id,
     event_type |-> event_type,
     processed_timestamp |-> processed_timestamp,
     session_id |-> sid,
     dwell_duration |-> dwell]

\* a row without its primary key, every other column kept
WithoutId(e) == [column \in DOMAIN e \ {"id"} |-> e[column]]

\* the rows of camera_events, the primary key their position
EventRows(B) ==
    LET rows == BagToSeq(B)
    IN  [i \in 1..Len(rows) |-> [id |-> i] @@ rows[i]]

EventBag(rows) == SeqToBag([i \in 1..Len(rows) |-> WithoutId(rows[i])])

Database ==
    [events |-> EventRows(events), sessions |-> BagToSeq(sessions),
     autoflush |-> autoflush]

\* csv_processor.py _insert_chunk, lines 284-366, for a chunk of one row:
\* clean_and_prepare_data (lines 203-209) gave an entry row a session id of its
\* own (a uuid) and no other row one
IngestedEvent(key, event_type, timestamp) ==
    WithoutId(CameraEvent(0, key[1], key[2], event_type, timestamp,
                          IF event_type = "entry" THEN "uuid" ELSE NONE, NULL))

Init ==
    /\ events = EmptyBag
    /\ sessions = EmptyBag
    /\ autoflush \in BOOLEAN
    /\ run = NoRun
    /\ cache = {}
    /\ workers = <<>>
    /\ request = NoRequest
    /\ response = NoResponse
    /\ group = GroupKeys[1]
    /\ entries = <<>>
    /\ exits = <<>>
    /\ entry_idx = 0
    /\ exit_idx = 0
    /\ pairs = <<>>
    /\ pc = "idle"
    /\ result = <<>>
    /\ discarded = {}
    /\ iterations = 0

\* _insert_chunk adds one camera event. The events here are those of one
\* (person_id, camera_id) pair: the engine groups by the pair, and the groups
\* meet only in session_id, which SpecMatch covers with both GroupKeys.
Ingest ==
    /\ BagCardinality(events) < MaxEvents
    /\ \E k \in {1}, ty \in EventTypes, t \in Times :
         events' = events (+) SetToBag({IngestedEvent(GroupKeys[k], ty, t)})
    /\ UNCHANGED <<sessions, autoflush, workers, run, cache, matchVars, apiVars>>

\* A call of calculate_dwell_times(start_date, end_date). An exception of the
\* database can strike only where the database is written, which a call that
\* finds no event never does.
Calculate ==
    /\ \E start_date \in Dates, end_date \in Dates, fault \in Faults :
         /\ fault # "none" => EventsFrame(Database.events, start_date, end_date) # <<>>
         /\ \E r \in {calculate_dwell_times(Database, start_date, end_date, fault)} :
              /\ events' = EventBag(r.events)
              /\ sessions' = SeqToBag(r.sessions)
              /\ run' = [outcome |-> r.outcome, summary |-> r.summary]
    /\ UNCHANGED <<autoflush, workers, cache, matchVars, apiVars>>

Next == Ingest \/ Calculate

Spec == Init /\ [][Next]_vars

-----------------------------------------------------------------------------
(* SpecMatch: _calculate_sessions over the frame of one group, the while   *)
(* loop of _match_entries_exits taken one iteration at a time              *)

\* The frames of one group the query of calculate_dwell_times can hand over:
\* rows in ascending timestamp order (its ORDER BY), ids distinct.
RECURSIVE FramesOfLen(_, _)
FramesOfLen(key, n) ==
    IF n = 0 THEN {<<>>}
    ELSE {Append(f, [id |-> n, timestamp |-> t, person_id |-> key[1],
                     camera_id |-> key[2], event_type |-> ty, session_id |-> NONE]) :
            f \in FramesOfLen(key, n - 1), t \in Times, ty \in EventTypes}

IsSortedByTimestamp(f) ==
    \A i \in 1..(Len(f) - 1) : f[i].timestamp <= f[i + 1].timestamp

GroupFrames(key) ==
    {f \in UNION {FramesOfLen(key, n) : n \in 0..MaxRows} : IsSortedByTimestamp(f)}

MatchState ==
    [entries |-> entries, exits |-> exits, entry_idx |-> entry_idx,
     exit_idx |-> exit_idx, pairs |-> pairs]

InitMatch ==
    /\ \E k \in 1..Len(GroupKeys) : \E rows \in GroupFrames(GroupKeys[k]) :
         LET by_time == sort_values(rows)
         IN  /\ group = GroupKeys[k]
             /\ entries = SelectSeq(by_time, IsEntry)
             /\ exits = SelectSeq(by_time, IsExit)
    /\ entry_idx = 0
    /\ exit_idx = 0
    /\ pairs = <<>>
    /\ pc = "match"
    /\ result = <<>>
    /\ discarded = {}
    /\ iterations = 0
    /\ events = EmptyBag
    /\ sessions = EmptyBag
    /\ autoflush = TRUE
    /\ run = NoRun
    /\ cache = {}
    /\ workers = <<>>
    /\ request = NoRequest
    /\ response = NoResponse

\* lines 106-122: one iteration
MatchIteration ==
    /\ pc = "match"
    /\ LoopCond(MatchState)
    /\ LET n == MatchStep(MatchState)
       IN  /\ entry_idx' = n.entry_idx
           /\ exit_idx' = n.exit_idx
           /\ pairs' = n.pairs
           /\ discarded' =
                IF n.exit_idx > exit_idx /\ n.pairs = pairs
                THEN discarded \cup {exits[exit_idx + 1].id}
                ELSE discarded
    /\ iterations' = iterations + 1
    /\ UNCHANGED <<group, entries, exits, pc, result, dbVars, apiVars>>

\* MatchReturn with a defect: an entry the loop left unmatched is reported as
\* an open session, without an exit time.
MatchReturn_open_sessions ==
    /\ pc = "match"
    /\ ~LoopCond(MatchState)
    /\ result' = SessionsOfPairs(group[1], group[2], pairs) \o
                  [i \in 1..(Len(entries) - entry_idx) |->
                      [session_id |-> session_id(group[1], group[2],
                                                 entries[entry_idx + i]),
                       person_id |-> group[1],
                       camera_id |-> group[2],
                       entry_time |-> entries[entry_idx + i].timestamp,
                       exit_time |-> NULL,
                       dwell_duration |-> NULL]]
    /\ pc' = "done"
    /\ UNCHANGED <<group, entries, exits, entry_idx, exit_idx, pairs, discarded,
                   iterations, dbVars, apiVars>>

\* line 124 and lines 85-96: the loop ends, the sessions are built
MatchReturn ==
    /\ pc = "match"
    /\ ~LoopCond(MatchState)
    /\ result' = SessionsOfPairs(group[1], group[2], pairs)
    /\ pc' = "done"
    /\ UNCHANGED <<group, entries, exits, entry_idx, exit_idx, pairs, discarded,
                   iterations, dbVars, apiVars>>

NextMatch == MatchIteration \/ MatchReturn

SpecMatch == InitMatch /\ [][NextMatch]_vars

-----------------------------------------------------------------------------
(* Properties of one run of the matcher (SpecMatch) *)

CurEntry == entries[entry_idx + 1]
CurExit == exits[exit_idx + 1]
InLoop == pc = "match" /\ LoopCond(MatchState)

\* C1: every session a run emits has exit_time >= entry_time, carries the
\* times of the events it pairs, and has as dwell_duration the whole seconds
\* of exit_time - entry_time (d seconds <= the difference < d + 1 seconds); a
\* single entry and a single exit a whole number d > 0 of seconds later give
\* exactly one session, of dwell d, and total_dwell_time d.
C1_SessionDuration ==
    pc = "done" =>
        /\ Len(result) = Len(pairs)
        /\ \A i \in 1..Len(result) :
             /\ result[i].entry_time = pairs[i][1].timestamp
             /\ result[i].exit_time = pairs[i][2].timestamp
             /\ result[i].exit_time >= result[i].entry_time
             /\ result[i].dwell_duration * TicksPerSecond
                    <= result[i].exit_time - result[i].entry_time
             /\ result[i].exit_time - result[i].entry_time
                    < (result[i].dwell_duration + 1) * TicksPerSecond
        /\ \A d \in 1..MaxTime :
             (/\ Len(entries) = 1
              /\ Len(exits) = 1
              /\ exits[1].timestamp = entries[1].timestamp + d * TicksPerSecond)
             => /\ Len(result) = 1
                /\ result[1].dwell_duration = d
                /\ _calculate_summary_stats(result).total_dwell_time = d

\* a session whose span is more than a second and not a whole number of seconds
C1_Witness ==
    /\ pc = "done"
    /\ \E i \in 1..Len(result) :
         /\ result[i].dwell_duration >= 1
         /\ (result[i].exit_time - result[i].entry_time) % TicksPerSecond # 0

\* C2: the pairs form a one-to-one partial matching of the entries and the
\* exits: each pair joins an entry of the group with an exit of the group, no
\* entry is in two pairs and no exit is in two pairs.
C2_OneToOne ==
    /\ \A i \in 1..Len(pairs) :
         /\ pairs[i][1] \in Range(entries)
         /\ pairs[i][2] \in Range(exits)
    /\ \A i, j \in 1..Len(pairs) :
         i # j => /\ pairs[i][1].id # pairs[j][1].id
                  /\ pairs[i][2].id # pairs[j][2].id

C2_Witness == pc = "done" /\ Len(pairs) >= 2

\* C3: when the entry and the exit under the cursors have the same timestamp,
\* the iteration appends the pair of them and advances both cursors.
C3_TiePaired ==
    [][(InLoop /\ CurEntry.timestamp = CurExit.timestamp)
         => /\ pairs' = Append(pairs, <<CurEntry, CurExit>>)
            /\ entry_idx' = entry_idx + 1
            /\ exit_idx' = exit_idx + 1]_vars

\* C4: the sessions of the group do not overlap: of any two of them, one ends
\* at or before the start of the other.
C4_NoOverlap ==
    pc = "done" =>
        \A i, j \in 1..Len(result) :
            i # j => \/ result[i].exit_time <= result[j].entry_time
                     \/ result[j].exit_time <= result[i].entry_time

\* C5: when the exit under the cursor is strictly earlier than the entry
\* under the cursor, the iteration discards that exit and advances the exit
\* cursor alone (the entry stays under its cursor, no pair is added); a
\* discarded exit is in no pair and in no session, then and later.
C5_OrphanExit ==
    [][/\ (InLoop /\ CurExit.timestamp < CurEntry.timestamp)
            => /\ exit_idx' = exit_idx + 1
               /\ entry_idx' = entry_idx
               /\ pairs' = pairs
               /\ CurExit.id \in discarded'
       /\ \A i \in 1..Len(pairs') : pairs'[i][2].id \notin discarded'
       /\ pc' = "done" =>
            /\ Len(result') = Len(pairs')
            /\ \A i \in 1..Len(result') :
                 result'[i].exit_time = pairs'[i][2].timestamp]_vars

\* an entry that was paired after an earlier exit had been discarded
C5_Witness ==
    /\ pc = "done"
    /\ \E x \in Range(exits) :
         /\ x.id \in discarded
         /\ \E i \in 1..Len(pairs) : pairs[i][1].timestamp > x.timestamp

\* C6: the entries still unmatched when the exits are exhausted yield nothing:
\* they are in no pair, every emitted session and every row _store_sessions
\* writes for it has an exit time, and the group has at most
\* min(number of entries, number of exits) sessions.
C6_NoOpenSession ==
    pc = "done" =>
        /\ \A k \in (entry_idx + 1)..Len(entries) :
             \A i \in 1..Len(pairs) : pairs[i][1].id # entries[k].id
        /\ Len(result) <= Min2(Len(entries), Len(exits))
        /\ \A i \in 1..Len(result) : result[i].exit_time \in Times
        /\ \A flush \in BOOLEAN :
             LET stored == _store_sessions(<<>>, result, flush).table
             IN  \A i \in 1..Len(stored) :
                    /\ stored[i].exit_time \in Times
                    /\ stored[i].dwell_duration # NULL

\* the exits ran out with an entry left over, after a session was paired
C6_Witness ==
    /\ pc = "done"
    /\ exit_idx = Len(exits)
    /\ entry_idx < Len(entries)
    /\ Len(result) >= 1
-----------------------------------------------------------------------------
(* Properties of the session store over ingestions and calls (Spec) *)

\* the database a call leaves, as the next call finds it
After(r) == [events |-> r.events, sessions |-> r.sessions, autoflush |-> autoflush]

\* the session key of the data model
SameKey(a, b) ==
    /\ a.person_id = b.person_id
    /\ a.camera_id = b.camera_id
    /\ a.entry_time = b.entry_time

OneRowPerKey(table) ==
    \A i, j \in 1..Len(table) : SameKey(table[i], table[j]) => i = j

\* C7: calling calculate_dwell_times twice over the same events and window is
\* idempotent: the second call emits the same sessions and ends as the first
\* did, and the session store after it equals the store after the first call,
\* with one row per session_id and per key (no duplicate rows).
C7_Idempotent ==
    \A start_date \in Dates, end_date \in Dates :
        LET first == calculate_dwell_times(Database, start_date, end_date, "none")
            second == calculate_dwell_times(After(first), start_date, end_date, "none")
        IN  /\ SeqToBag(second.sessions) = SeqToBag(first.sessions)
            /\ second.session_list = first.session_list
            /\ second.outcome = first.outcome
            /\ UniqueSessionIds(second.sessions)
            /\ OneRowPerKey(second.sessions)

\* the store as a call that emits two sessions left it, found by the same
\* call a second time
C7_Witness ==
    /\ run.outcome = "returned"
    /\ \E start_date \in Dates, end_date \in Dates :
         LET again == calculate_dwell_times(Database, start_date, end_date, "none")
         IN  /\ again.outcome = "returned"
             /\ Len(again.session_list) >= 2
             /\ SeqToBag(again.sessions) = sessions
             /\ EventBag(again.events) = events

\* the session of the key of `row` that the call computed last
LastWithKey(session_list, row) ==
    LET hits == {k \in 1..Len(session_list) : SameKey(session_list[k], row)}
    IN  session_list[CHOOSE k \in hits : \A h \in hits : h <= k]

\* C8: when a call pairs the entry of a persisted session (same person_id,
\* camera_id, entry_time) with a different exit, the store after the call
\* holds exactly one row of that key and the row carries the exit_time and
\* dwell_duration the call computed for the key; the store never holds two
\* rows of one key.
C8_LastComputedWins ==
    /\ OneRowPerKey(BagToSeq(sessions))
    /\ \A start_date \in Dates, end_date \in Dates :
         LET r == calculate_dwell_times(Database, start_date, end_date, "none")
             old == BagToSeq(sessions)
         IN  r.outcome = "returned" =>
               \A i \in 1..Len(old) :
                 (/\ \E k \in 1..Len(r.session_list) : SameKey(r.session_list[k], old[i])
                  /\ LastWithKey(r.session_list, old[i]).exit_time # old[i].exit_time)
                 => LET new == LastWithKey(r.session_list, old[i])
                        rows == {j \in 1..Len(r.sessions) : SameKey(r.sessions[j], old[i])}
                    IN  /\ Cardinality(rows) = 1
                        /\ \A j \in rows :
                             /\ r.sessions[j].exit_time = new.exit_time
                             /\ r.sessions[j].dwell_duration = new.dwell_duration

\* C9: no exit event is the exit of two persisted sessions and no entry event
\* is the entry of two persisted sessions of its (person_id, camera_id) pair:
\* at every instant the pair has no more persisted sessions that end (start)
\* there than it has exit (entry) events there.
C9_NoSharedEvent ==
    LET stored == BagToSeq(sessions)
        table == BagToSeq(events)
    IN  \A k \in 1..Len(GroupKeys), t \in Times :
          /\ Cardinality({i \in 1..Len(stored) :
                 HasKey(stored[i], GroupKeys[k]) /\ stored[i].exit_time = t})
             <= Cardinality({i \in 1..Len(table) :
                 /\ HasKey(table[i], GroupKeys[k])
                 /\ table[i].event_type = "exit"
                 /\ table[i].processed_timestamp = t})
          /\ Cardinality({i \in 1..Len(stored) :
                 HasKey(stored[i], GroupKeys[k]) /\ stored[i].entry_time = t})
             <= Cardinality({i \in 1..Len(table) :
                 /\ HasKey(table[i], GroupKeys[k])
                 /\ table[i].event_type = "entry"
                 /\ table[i].processed_timestamp = t})

\* C10: a call of calculate_dwell_times that raises ProcessingError commits
\* none of its sessions: the session store is as it was before the call.
C10_NoPartialCommit ==
    [][(/\ BagCardinality(events') = BagCardinality(events)
        /\ run'.outcome = "ProcessingError")
         => sessions' = sessions]_vars

-----------------------------------------------------------------------------
(* SpecUpload: POST /upload-csv (api/analytics/upload_analytics.py), which  *)
(* runs CSVProcessor.process_csv_file, calculate_dwell_times and           *)
(* calculate_kpi_metrics on one database session                           *)

MaxUploaded == 2      \* rows of camera_events under SpecUpload

chunk_size == 1000    \* rows of a chunk: every file here is one chunk

\* utc_time_started_readable and utc_time_ended_readable of a CSV row, in
\* whole seconds; NULL is a cell that to_datetime(errors='coerce') reads as NaT
Spans == {<<0, MaxTime>>, <<MaxTime, 0>>, <<0, NULL>>}

\* the rows of a CSV file with the required columns
CsvRows ==
    {[person_id |-> GroupKeys[1][1], camera_id |-> GroupKeys[1][2],
      event_type |-> ty, timestamp |-> t,
      utc_time_started_readable |-> span[1],
      utc_time_ended_readable |-> span[2]] :
        ty \in EventTypes, t \in Times, span \in Spans}

RowsOfLen(n) == [1..n -> CsvRows]

\* an uploaded file: its name ends in .csv or not, it has the required columns
\* or not, and its rows (at most n)
UploadFiles(n) ==
    {[csv |-> TRUE, columns |-> TRUE, rows |-> rows] :
        rows \in UNION {RowsOfLen(k) : k \in 0..n}}
    \cup {[csv |-> FALSE, columns |-> TRUE, rows |-> <<>>],
          [csv |-> TRUE, columns |-> FALSE, rows |-> <<>>]}

\* csv_processor.py lines 161-171: end minus start in seconds, 0 where either
\* is NaT
calculate_dwell_time(row) ==
    IF row.utc_time_started_readable = NULL \/ row.utc_time_ended_readable = NULL
    THEN 0
    ELSE row.utc_time_ended_readable - row.utc_time_started_readable

\* line 187
RECURSIVE drop_duplicates(_)
drop_duplicates(rows) ==
    IF rows = <<>> THEN <<>>
    ELSE LET front == drop_duplicates(SubSeq(rows, 1, Len(rows) - 1))
             last == rows[Len(rows)]
         IN  IF last \in Range(front) THEN front ELSE Append(front, last)

\* lines 184-211: the chunk as _insert_chunk receives it
clean_and_prepare_data(rows) ==
    LET df == sort_values(drop_duplicates(rows))
    IN  [i \in 1..Len(df) |->
            df[i] @@ [dwell_time |-> calculate_dwell_time(df[i]),
                      session_id |-> IF df[i].event_type = "entry"
                                     THEN "uuid" ELSE NONE]]

\* lines 290-361: the CameraEvent of a row, with the primary key the insert
\* gives it
StoredEvent(id, row) ==
    CameraEvent(id, row.person_id, row.camera_id, row.event_type, row.timestamp,
                row.session_id, NULL)
    @@ [utc_time_started_readable |-> row.utc_time_started_readable,
        utc_time_ended_readable |-> row.utc_time_ended_readable,
        dwell_time |-> row.dwell_time]

\* lines 280-366, the commit included
_insert_chunk(table, df) ==
    table \o [i \in 1..Len(df) |-> StoredEvent(Len(table) + i, df[i])]

\* lines 213-278 on the table camera_events
process_csv_file(table, file) ==
    IF ~file.columns \/ file.rows = <<>>
    THEN [raised |-> TRUE, events |-> table, result |-> <<>>]
    ELSE LET chunk == clean_and_prepare_data(file.rows)
         IN  [raised |-> FALSE,
              events |-> _insert_chunk(table, chunk),
              result |-> [total_rows |-> chunk_size,
                          processed_rows |-> Len(chunk),
                          errors |-> <<>>]]

\* analytics_service.py lines 19-78, called without dates as line 57 of
\* upload_analytics.py calls it; the average is the pair (sum, count) it
\* divides
calculate_kpi_metrics(db) ==
    LET stored == db.sessions
        positive == SelectSeq(stored, LAMBDA x : x.dwell_duration # NULL
                                                 /\ x.dwell_duration # 0)
        dwell_times == [i \in 1..Len(positive) |-> positive[i].dwell_duration]
        ordered == sorted(dwell_times)
        some == dwell_times # <<>>
    IN  [total_unique_visitors |->
             Cardinality({db.events[i].person_id : i \in 1..Len(db.events)}),
         total_events_processed |-> Len(db.events),
         active_cameras_count |->
             Cardinality({db.events[i].camera_id : i \in 1..Len(db.events)}),
         average_dwell_time_seconds |->
             IF some THEN <<SumSeq(dwell_times), Len(dwell_times)>> ELSE <<0, 1>>,
         median_dwell_time_seconds |->
             IF some THEN ordered[(Len(dwell_times) \div 2) + 1] ELSE 0,
         maximum_dwell_time_seconds |->
             IF some THEN ordered[Len(ordered)] ELSE 0,
         total_sessions |-> Len(stored)]

\* where an exception strikes a request: nowhere, inside calculate_dwell_times
\* (see Faults), inside calculate_kpi_metrics
UploadFaults == Faults \cup {"kpi"}

HTTPException(status_code, detail) ==
    [status |-> status_code, detail |-> detail, body |-> <<>>]

\* the handler with ingestion and reconstruction in one transaction, which a
\* failure of the reconstruction rolls back
upload_csv_data_one_transaction(db, file, fault) ==
    LET processed == process_csv_file(db.events, file)
        ingested == [db EXCEPT !.events = processed.events]
        r == calculate_dwell_times(ingested, NULL, NULL,
                                   IF fault = "kpi" THEN "none" ELSE fault)
        after == [db EXCEPT !.events = r.events, !.sessions = r.sessions]
    IN  IF ~file.csv
        THEN [db |-> db, run |-> NoRun,
              response |-> HTTPException(500, "Internal server error")]
        ELSE IF processed.raised
        THEN [db |-> db, run |-> NoRun,
              response |-> HTTPException(400, "DataValidationError")]
        ELSE IF r.outcome = "ProcessingError"
        THEN [db |-> db, run |-> [outcome |-> r.outcome, summary |-> r.summary],
              response |-> HTTPException(500, "Processing error")]
        ELSE IF fault = "kpi"
        THEN [db |-> after, run |-> [outcome |-> r.outcome, summary |-> r.summary],
              response |-> HTTPException(500, "Internal server error")]
        ELSE [db |-> after, run |-> [outcome |-> r.outcome, summary |-> r.summary],
              response |-> [status |-> 200, detail |-> NONE,
                            body |-> [upload_result |-> processed.result,
                                      dwell_time_calculation |-> r.summary,
                                      analytics |-> calculate_kpi_metrics(after)]]]

\* upload_analytics.py lines 28-80 on the database db. The HTTPException of
\* line 37 is an Exception, so the handler of line 78 answers it with 500.
upload_csv_data(db, file, fault) ==
    LET processed == process_csv_file(db.events, file)
        ingested == [db EXCEPT !.events = processed.events]
        r == calculate_dwell_times(ingested, NULL, NULL,
                                   IF fault = "kpi" THEN "none" ELSE fault)
        after == [db EXCEPT !.events = r.events, !.sessions = r.sessions]
    IN  IF ~file.csv
        THEN [db |-> db, run |-> NoRun,
              response |-> HTTPException(500, "Internal server error")]
        ELSE IF processed.raised
        THEN [db |-> db, run |-> NoRun,
              response |-> HTTPException(400, "DataValidationError")]
        ELSE IF r.outcome = "ProcessingError"
        THEN [db |-> after, run |-> [outcome |-> r.outcome, summary |-> r.summary],
              response |-> HTTPException(500, "Processing error")]
        ELSE IF fault = "kpi"
        THEN [db |-> after, run |-> [outcome |-> r.outcome, summary |-> r.summary],
              response |-> HTTPException(500, "Internal server error")]
        ELSE [db |-> after, run |-> [outcome |-> r.outcome, summary |-> r.summary],
              response |-> [status |-> 200, detail |-> NONE,
                            body |-> [upload_result |-> processed.result,
                                      dwell_time_calculation |-> r.summary,
                                      analytics |-> calculate_kpi_metrics(after)]]]

\* One request to /upload-csv. An injected exception needs a file that gets
\* as far as the step it strikes.
UploadCsv ==
    /\ \E file \in UploadFiles(MaxUploaded - BagCardinality(events)),
          fault \in UploadFaults :
         /\ fault # "none" => (file.csv /\ file.columns /\ file.rows # <<>>)
         /\ \E r \in {upload_csv_data(Database, file, fault)} :
              /\ events' = EventBag(r.db.events)
              /\ sessions' = SeqToBag(r.db.sessions)
              /\ run' = r.run
              /\ request' = [endpoint |-> "upload-csv", file |-> file]
              /\ response' = r.response
    /\ UNCHANGED <<autoflush, workers, cache, matchVars>>

NextUpload == UploadCsv

SpecUpload == Init /\ [][NextUpload]_vars

\* the rows of camera_events as ingestion writes them, without what the
\* reconstruction writes into them
Ingested(B) ==
    LET rows == BagToSeq(B)
    IN  SeqToBag([i \in 1..Len(rows) |->
            [rows[i] EXCEPT !.session_id = NONE, !.dwell_duration = NULL]])

\* the events the ingestion step of the request req inserted
InsertedRows(req) ==
    IF req.endpoint = "upload-csv" /\ req.file.csv
    THEN EventBag(process_csv_file(<<>>, req.file).events)
    ELSE EmptyBag

\* C11: in a request to /upload-csv whose reconstruction fails with
\* ProcessingError, the request answers with an error status and every event
\* the ingestion step inserted is in camera_events after the request, next to
\* the events that were there before it.
C11_IngestionCommitted ==
    [][(request'.endpoint = "upload-csv" /\ run'.outcome = "ProcessingError")
       => /\ response'.status >= 400
          /\ Ingested(events') = Ingested(events) (+) Ingested(InsertedRows(request'))]_vars

\* a request inserted events and its reconstruction failed
C11_Witness ==
    /\ request.endpoint = "upload-csv"
    /\ run.outcome = "ProcessingError"
    /\ response.status = 500
    /\ response.detail = "Processing error"
    /\ InsertedRows(request) # EmptyBag
    /\ InsertedRows(request) \sqsubseteq Ingested(events)

-----------------------------------------------------------------------------
(* SpecAnalytics: DwellTimeEngine.get_dwell_time_analytics over the rows of *)
(* person_sessions                                                          *)

MaxStored == 2        \* rows of person_sessions under SpecAnalytics

\* person_id and camera_id values, in the ascending order groupby reports
Persons == <<"a", "a_b">>
Cameras == <<"b_c", "c">>

\* the values of group_by a caller passes; "zone" is not supported
GroupBys == {"person", "camera", "zone"}

\* the rows _store_sessions can write: a session per person, camera, entry
\* and later exit
StoredSessions ==
    {PersonSession(SessionOf(Persons[p], Cameras[c],
                             [timestamp |-> span[1]], [timestamp |-> span[2]])) :
        p \in 1..Len(Persons), c \in 1..Len(Cameras),
        span \in {x \in Times \X Times : x[1] < x[2]}}

\* the tables of at most MaxStored rows the unique constraint admits
SessionTables ==
    {T \in SUBSET StoredSessions :
        /\ Cardinality(T) <= MaxStored
        /\ \A x, y \in T : x.session_id = y.session_id => x = y}

\* lines 206-209
SessionInWindow(row, start_date, end_date) ==
    /\ (start_date # NULL => row.entry_time >= start_date)
    /\ (end_date # NULL => row.exit_time <= end_date)

\* pandas median: the middle value, or the mean of the two middle values, as
\* the pair (numerator, denominator)
pandas_median(values) ==
    LET ordered == sorted(values)
        n == Len(ordered)
    IN  IF n % 2 = 1 THEN <<ordered[(n + 1) \div 2], 1>>
        ELSE <<ordered[n \div 2] + ordered[(n \div 2) + 1], 2>>

\* agg(['count', 'mean', 'median', 'max', 'min', 'sum']) over the frame rows
\* of every key, whatever their key
agg_ignores_key(frame, column, key) ==
    LET dwell == [i \in 1..Len(frame) |-> frame[i].dwell_duration]
        ordered == sorted(dwell)
    IN  [key |-> key,
         count |-> Len(dwell),
         mean |-> <<SumSeq(dwell), Len(dwell)>>,
         median |-> pandas_median(dwell),
         max |-> ordered[Len(ordered)],
         min |-> ordered[1],
         sum |-> SumSeq(dwell)]

\* lines 229-235: agg(['count', 'mean', 'median', 'max', 'min', 'sum']) over
\* the dwell_duration of the frame rows whose column is key
agg(frame, column, key) ==
    LET members == SelectSeq(frame, LAMBDA row : row[column] = key)
        dwell == [i \in 1..Len(members) |-> members[i].dwell_duration]
        ordered == sorted(dwell)
    IN  [key |-> key,
         count |-> Len(dwell),
         mean |-> <<SumSeq(dwell), Len(dwell)>>,
         median |-> pandas_median(dwell),
         max |-> ordered[Len(ordered)],
         min |-> ordered[1],
         sum |-> SumSeq(dwell)]

\* groupby(column): one record per key the frame has, keys ascending
groupby(frame, column, keys) ==
    LET present == SelectSeq(keys, LAMBDA k : \E i \in 1..Len(frame) :
                                                  frame[i][column] = k)
    IN  [j \in 1..Len(present) |-> agg(frame, column, present[j])]

\* dwell_time_engine.py lines 199-247 on the rows of person_sessions
get_dwell_time_analytics(table, start_date, end_date, group_by) ==
    LET hit == SelectSeq(table, LAMBDA row :
                   SessionInWindow(row, start_date, end_date))
        dwell == [i \in 1..Len(hit) |-> hit[i].dwell_duration]
    IN  IF hit = <<>>
        THEN [raised |-> NONE, value |-> [groups |-> <<>>, summary |-> <<>>]]
        ELSE IF group_by = "person"
        THEN [raised |-> NONE,
              value |-> [groups |-> groupby(hit, "person_id", Persons),
                         summary |-> [total_sessions |-> Len(hit),
                                      total_dwell_time |-> SumSeq(dwell),
                                      average_dwell_time |-> <<SumSeq(dwell), Len(dwell)>>,
                                      median_dwell_time |-> pandas_median(dwell)]]]
        ELSE IF group_by = "camera"
        THEN [raised |-> NONE,
              value |-> [groups |-> groupby(hit, "camera_id", Cameras),
                         summary |-> [total_sessions |-> Len(hit),
                                      total_dwell_time |-> SumSeq(dwell),
                                      average_dwell_time |-> <<SumSeq(dwell), Len(dwell)>>,
                                      median_dwell_time |-> pandas_median(dwell)]]]
        ELSE [raised |-> "ValueError", value |-> <<>>]

InitAnalytics ==
    /\ \E T \in SessionTables : sessions = SetToBag(T)
    /\ events = EmptyBag
    /\ autoflush = TRUE
    /\ run = NoRun
    /\ cache = {}
    /\ workers = <<>>
    /\ request = NoRequest
    /\ response = NoResponse
    /\ group = GroupKeys[1]
    /\ entries = <<>>
    /\ exits = <<>>
    /\ entry_idx = 0
    /\ exit_idx = 0
    /\ pairs = <<>>
    /\ pc = "idle"
    /\ result = <<>>
    /\ discarded = {}
    /\ iterations = 0

\* one call of get_dwell_time_analytics(start_date, end_date, group_by). The
\* call writes nothing, so a second call finds what the first found: every
\* behaviour makes one.
GetAnalytics ==
    /\ request = NoRequest
    /\ \E start_date \in Dates, end_date \in Dates, group_by \in GroupBys :
         /\ request' = [endpoint |-> "get_dwell_time_analytics",
                        start_date |-> start_date, end_date |-> end_date,
                        group_by |-> group_by]
         /\ response' = get_dwell_time_analytics(BagToSeq(sessions), start_date,
                                                 end_date, group_by)
    /\ UNCHANGED <<dbVars, matchVars>>

NextAnalytics == GetAnalytics

SpecAnalytics == InitAnalytics /\ [][NextAnalytics]_vars

\* the lower of the two middle elements, the middle one of an odd number
LowerMedian(values) == sorted(values)[(Len(values) + 1) \div 2]

\* the stored sessions the last request's window selects
Matching(req) ==
    {row \in BagToSet(sessions) :
        SessionInWindow(row, req.start_date, req.end_date)}

DwellOf(table) == [i \in 1..Len(table) |-> table[i].dwell_duration]

\* the median as the pair (numerator, denominator) is the integer m
IsMedian(median, m) == median[1] = m * median[2]

\* C13: the median of the reconstruction summary, of the KPI metrics and of
\* the dwell-time analytics (summary and groups) is the middle element of the
\* sorted dwell values, the lower of the two middle elements when their
\* number is even.
C13_LowerMedian ==
    LET stored == BagToSeq(sessions)
        positive == SelectSeq(DwellOf(stored), LAMBDA x : x # 0)
    IN  /\ \A start_date \in Dates, end_date \in Dates :
             LET r == calculate_dwell_times(Database, start_date, end_date, "none")
             IN  (r.outcome = "returned" /\ r.session_list # <<>>)
                 => r.summary.median_dwell_time
                        = LowerMedian(DwellOf(r.session_list))
        /\ positive # <<>> =>
             calculate_kpi_metrics(Database).median_dwell_time_seconds
                 = LowerMedian(positive)
        /\ \A start_date \in Dates, end_date \in Dates :
             LET a == get_dwell_time_analytics(stored, start_date, end_date, "person")
                 hit == SelectSeq(stored, LAMBDA row :
                            SessionInWindow(row, start_date, end_date))
             IN  hit # <<>> =>
                   /\ IsMedian(a.value.summary.median_dwell_time,
                               LowerMedian(DwellOf(hit)))
                   /\ \A j \in 1..Len(a.value.groups) :
                        IsMedian(a.value.groups[j].median,
                                 LowerMedian(DwellOf(SelectSeq(hit, LAMBDA row :
                                     row.person_id = a.value.groups[j].key))))

RECURSIVE SumDwell(_)
SumDwell(S) ==
    IF S = {} THEN 0
    ELSE LET row == CHOOSE x \in S : TRUE
         IN  row.dwell_duration + SumDwell(S \ {row})

GroupColumn(req) == IF req.group_by = "person" THEN "person_id" ELSE "camera_id"

\* C14: for get_dwell_time_analytics grouped by person or by camera, there is
\* one group per key of the sessions the window selects, each group's sum is
\* the sum of dwell_duration of its sessions and its count their number, and
\* the summary's total_dwell_time and total_sessions are the sum of the
\* groups' sums and of the groups' counts.
C14_GroupSums ==
    (request.endpoint = "get_dwell_time_analytics"
     /\ request.group_by \in {"person", "camera"})
    => LET hit == Matching(request)
           column == GroupColumn(request)
           groups == response.value.groups
           members(j) == {row \in hit : row[column] = groups[j].key}
       IN  /\ response.raised = NONE
           /\ {groups[j].key : j \in 1..Len(groups)} = {row[column] : row \in hit}
           /\ \A i, j \in 1..Len(groups) : groups[i].key = groups[j].key => i = j
           /\ \A j \in 1..Len(groups) :
                /\ groups[j].sum = SumDwell(members(j))
                /\ groups[j].count = Cardinality(members(j))
           /\ hit # {} =>
                /\ response.value.summary.total_dwell_time
                     = SumSeq([j \in 1..Len(groups) |-> groups[j].sum])
                /\ response.value.summary.total_sessions
                     = SumSeq([j \in 1..Len(groups) |-> groups[j].count])

\* a call answered with two groups, one of them with a dwell above zero
C14_Witness ==
    /\ request.endpoint = "get_dwell_time_analytics"
    /\ request.group_by \in {"person", "camera"}
    /\ response.raised = NONE
    /\ Len(response.value.groups) = 2
    /\ response.value.summary.total_dwell_time > 0

\* C15: get_dwell_time_analytics called with a group_by that is neither
\* person nor camera reports an error, whatever person_sessions holds and
\* whatever the window selects; it never returns a result.
C15_UnsupportedGroupBy ==
    (request.endpoint = "get_dwell_time_analytics"
     /\ request.group_by \notin {"person", "camera"})
    => response.raised # NONE

-----------------------------------------------------------------------------
(* SpecSeries: the time-bucketed endpoints of api/analytics over the rows   *)
(* of camera_events: get_dwell_time_time_series (dwell_time_analytics.py),  *)
(* get_foot_traffic_data, get_foot_traffic_time_series and get_chart_data   *)
(* (chart_analytics.py). Every request's date window and hierarchy filters  *)
(* select every stored row.                                                 *)

MaxSeries == 2        \* rows of camera_events under SpecSeries

\* gender_outcome values: csv_processor.py stores the cell as it is written
\* (process_demographic_data, lines 108-116), a row older than the column
\* holds NULL
Genders == {"male", "female", "Male", "other", NONE}

\* age_group_outcome values, stored as the cell is written as well
AgeGroups == {"adult", "Inconclusive"}

\* utc_time_started_readable by what extract('dow') and extract('hour') give:
\* every day of the week (Sunday is 0), hours below, inside and above 10..22
StartTimes ==
    {[dow |-> 0, hour |-> 9], [dow |-> 1, hour |-> 10], [dow |-> 2, hour |-> 22],
     [dow |-> 3, hour |-> 23], [dow |-> 4, hour |-> 10], [dow |-> 5, hour |-> 11],
     [dow |-> 6, hour |-> 22]}

\* dwell_time values in seconds
DwellTimes == {90}

\* the columns of CameraEvent the four endpoints read
SeriesEvents ==
    [person_id : Range(Persons),
     utc_time_started_readable : StartTimes,
     gender_outcome : Genders,
     age_group_outcome : AgeGroups,
     dwell_time : DwellTimes]

\* str.lower and func.lower on the values above
lower(s) ==
    IF s = "Male" THEN "male"
    ELSE IF s = "Inconclusive" THEN "inconclusive"
    ELSE s

coalesce(value, default) == IF value = NONE THEN default ELSE value

extract(field, row) == row.utc_time_started_readable[field]

\* round(numerator / denominator): the nearest integer, a tie to the even one
round_half_even(numerator, denominator) ==
    LET q == numerator \div denominator
        r == numerator % denominator
    IN  IF 2 * r < denominator THEN q
        ELSE IF 2 * r > denominator THEN q + 1
        ELSE IF q % 2 = 0 THEN q ELSE q + 1

\* round(seconds / 60.0, 2) of the seconds numerator / denominator, in
\* hundredths of a minute; 0 for the `or 0` of an aggregate over no row
minutes(numerator, denominator) ==
    IF denominator = 0 THEN 0
    ELSE round_half_even(numerator * 100, denominator * 60)

RECURSIVE SumColumn(_, _)
SumColumn(rows, column) ==
    IF rows = {} THEN 0
    ELSE LET r == CHOOSE x \in rows : TRUE
         IN  r[column] + SumColumn(rows \ {r}, column)

\* the aggregates of one group: func.sum(dwell_time), func.count(id) and
\* func.count(func.distinct(person_id)); func.avg is sum_sec / event_count
Aggregates(table, members) ==
    [sum_sec |-> SumColumn({[id |-> i, dwell_time |-> table[i].dwell_time] :
                              i \in members}, "dwell_time"),
     event_count |-> Cardinality(members),
     visitor_count |-> Cardinality({table[i].person_id : i \in members})]

\* the grouped queries: the rows `hit` selects, one result row per value of
\* the grouping columns; a column the query does not select reads NONE. The
\* rows of one time bucket come in an order ORDER BY does not fix: the result
\* is the set of its rows.
GroupedQuery(table, hit, time_field, by_gender, by_age) ==
    LET KeyOf(i) ==
            [bucket |-> IF time_field = NONE THEN NULL
                        ELSE extract(time_field, table[i]),
             gender |-> IF by_gender
                        THEN coalesce(table[i].gender_outcome, "other")
                        ELSE NONE,
             age_group |-> IF by_age
                           THEN coalesce(table[i].age_group_outcome, "Other")
                           ELSE NONE]
    IN  {k @@ Aggregates(table, {i \in hit : KeyOf(i) = k}) :
            k \in {KeyOf(i) : i \in hit}}

\* dwell_time_analytics.py lines 200-251, chart_analytics.py lines 244-271 and
\* 422-463: the hourly filter, the gender filter and the grouping
TimeSeriesQuery(table, view_type, breakdown) ==
    LET hit == {i \in 1..Len(table) :
                  /\ view_type = "hourly"
                        => extract("hour", table[i]) \in 10..22
                  /\ lower(coalesce(table[i].gender_outcome, "other"))
                        \in {"male", "female"}}
    IN  GroupedQuery(table, hit,
                     IF view_type = "hourly" THEN "hour" ELSE "dow",
                     breakdown # "age", breakdown \in {"age", "gender_age"})

hour_labels ==
    <<"10 AM", "11 AM", "12 PM", "1 PM", "2 PM", "3 PM", "4 PM", "5 PM", "6 PM",
      "7 PM", "8 PM", "9 PM", "10 PM">>
hours == <<10, 11, 12, 13, 14, 15, 16, 17, 18, 19, 20, 21, 22>>

day_labels ==
    <<"Monday", "Tuesday", "Wednesday", "Thursday", "Friday", "Saturday",
      "Sunday">>
\* the day of the week as the database gives it, Sunday first
day_mapping_sunday_first == [db_day \in 0..6 |-> db_day]

day_mapping == (0 :> 6) @@ (1 :> 0) @@ (2 :> 1) @@ (3 :> 2) @@ (4 :> 3)
               @@ (5 :> 4) @@ (6 :> 5)
expected_days == <<0, 1, 2, 3, 4, 5, 6>>

\* every result row from the bucket's hour on
BucketRows_from_slot(rows, view_type, slot) ==
    {r \in rows : r.bucket >= slot}

\* the result rows the loop of one bucket passes: `bucket == hour`, or
\* `db_day in day_mapping and day_mapping[db_day] == expected_day`
BucketRows(rows, view_type, slot) ==
    {r \in rows :
        IF view_type = "hourly" THEN r.bucket = slot
        ELSE r.bucket \in DOMAIN day_mapping /\ day_mapping[r.bucket] = slot}

\* the buckets a loop over hours or expected_days appends, in order: the label
\* of each and the value its result rows are matched with
Slots(view_type) ==
    IF view_type = "hourly"
    THEN [i \in 1..Len(hours) |->
            [time_period |-> hour_labels[i], slot |-> hours[i]]]
    ELSE [i \in 1..Len(expected_days) |->
            [time_period |-> day_labels[i], slot |-> expected_days[i]]]

\* the result rows of one gender. A (bucket, gender) group is one result row,
\* so at most one row of a bucket assigns each of male and female.
OfGender(rows, gender) == {r \in rows : r.gender = gender}

\* dwell_time_analytics.py lines 259-331 and 337-411: one bucket of the
\* dwell-time series, minutes in hundredths
DwellBucket(time_period, rows, metric_type, breakdown) ==
    LET Minutes(r) ==
            IF metric_type = "average" THEN minutes(r.sum_sec, r.event_count)
            ELSE minutes(r.sum_sec, 1)
        Entries(S) == {[age_group |-> r.age_group, minutes |-> Minutes(r)] : r \in S}
        Total(S) ==
            LET total_sum == SumColumn(S, "sum_sec")
                total_cnt == SumColumn(S, "event_count")
            IN  [total_minutes |->
                     IF metric_type = "average" /\ total_cnt > 0
                     THEN minutes(total_sum, total_cnt)
                     ELSE minutes(total_sum, 1),
                 sample_size |-> total_cnt]
    IN  IF breakdown \in {"none", "gender"}
        THEN LET male == OfGender(rows, "male")
                 female == OfGender(rows, "female")
                 male_sum == SumColumn(male, "sum_sec")
                 female_sum == SumColumn(female, "sum_sec")
                 male_count == SumColumn(male, "event_count")
                 female_count == SumColumn(female, "event_count")
                 total_count == male_count + female_count
             IN  IF metric_type = "average"
                 THEN [time_period |-> time_period,
                       male_minutes |-> minutes(male_sum, male_count),
                       female_minutes |-> minutes(female_sum, female_count),
                       total_minutes |-> minutes(male_sum + female_sum, total_count),
                       sample_size |-> total_count]
                 ELSE [time_period |-> time_period,
                       male_minutes |-> minutes(male_sum, 1),
                       female_minutes |-> minutes(female_sum, 1),
                       total_minutes |-> minutes(male_sum + female_sum, 1),
                       sample_size |-> total_count]
        ELSE IF breakdown = "age"
        THEN [time_period |-> time_period, age_groups |-> Entries(rows)]
             @@ Total(rows)
        ELSE LET counted == OfGender(rows, "male") \cup OfGender(rows, "female")
             IN  [time_period |-> time_period,
                  gender_age |-> [male |-> Entries(OfGender(rows, "male")),
                                  female |-> Entries(OfGender(rows, "female"))]]
                 @@ Total(counted)

SeriesViews == {"hourly", "daily"}
Breakdowns == {"none", "gender", "age", "gender_age"}
Metrics == {"average", "total"}

\* dwell_time_analytics.py lines 148-431, for parameters that pass the checks
\* of lines 162-167
get_dwell_time_time_series(table, view_type, metric_type, breakdown) ==
    IF view_type \notin SeriesViews \/ metric_type \notin Metrics
          \/ breakdown \notin Breakdowns
    THEN HTTPException(500, "Internal server error")
    ELSE LET rows == TimeSeriesQuery(table, view_type, breakdown)
             slots == Slots(view_type)
         IN  [status |-> 200, detail |-> NONE,
              body |-> [data |->
                  [i \in 1..Len(slots) |->
                      DwellBucket(slots[i].time_period,
                                  BucketRows(rows, view_type, slots[i].slot),
                                  metric_type, breakdown)]]]

\* chart_analytics.py lines 469-510 and 515-559: one bucket of the
\* foot-traffic series
VisitorBucket(time_period, rows, breakdown) ==
    LET conclusive == {r \in rows : lower(r.age_group) # "inconclusive"}
        Entries(S) ==
            {[age_group |-> r.age_group, count |-> r.visitor_count] : r \in S}
    IN  IF breakdown \in {"none", "gender"}
        THEN LET male == SumColumn(OfGender(rows, "male"), "visitor_count")
                 female == SumColumn(OfGender(rows, "female"), "visitor_count")
             IN  [time_period |-> time_period,
                  male_count |-> male,
                  female_count |-> female,
                  total_count |-> male + female]
        ELSE IF breakdown = "age"
        THEN [time_period |-> time_period,
              age_groups |-> Entries(conclusive),
              total_count |-> SumColumn(conclusive, "visitor_count")]
        ELSE LET counted == OfGender(conclusive, "male")
                               \cup OfGender(conclusive, "female")
             IN  [time_period |-> time_period,
                  gender_age |-> [male |-> Entries(OfGender(conclusive, "male")),
                                  female |-> Entries(OfGender(conclusive, "female"))],
                  total_count |-> SumColumn(counted, "visitor_count")]

\* chart_analytics.py lines 374-576
get_foot_traffic_time_series(table, view_type, breakdown) ==
    IF view_type \notin SeriesViews \/ breakdown \notin Breakdowns
    THEN HTTPException(500, "Internal server error")
    ELSE LET rows == TimeSeriesQuery(table, view_type, breakdown)
             slots == Slots(view_type)
         IN  [status |-> 200, detail |-> NONE,
              body |-> [data |->
                  [i \in 1..Len(slots) |->
                      VisitorBucket(slots[i].time_period,
                                    BucketRows(rows, view_type, slots[i].slot),
                                    breakdown)]]]

\* chart_analytics.py lines 295-316 and 325-348: one bucket of the foot
\* traffic chart. A result row whose gender is neither 'male' nor 'female'
\* assigns other_count; of Genders only 'Male' passes the query's filter
\* without being one of the two, so at most one row of a bucket does.
FootTrafficBucket(time_period, rows) ==
    LET male_count == SumColumn(OfGender(rows, "male"), "visitor_count")
        female_count == SumColumn(OfGender(rows, "female"), "visitor_count")
        other_count ==
            SumColumn(rows \ (OfGender(rows, "male") \cup OfGender(rows, "female")),
                      "visitor_count")
    IN  [time_period |-> time_period,
         male_count |-> male_count,
         female_count |-> female_count,
         other_count |-> other_count,
         total_count |-> male_count + female_count + other_count]

\* chart_analytics.py lines 149-372
get_foot_traffic_data(table, view_type) ==
    IF view_type \notin SeriesViews
    THEN HTTPException(500, "Internal server error")
    ELSE LET rows == TimeSeriesQuery(table, view_type, "gender")
             slots == Slots(view_type)
         IN  [status |-> 200, detail |-> NONE,
              body |-> [data |->
                  [i \in 1..Len(slots) |->
                      FootTrafficBucket(slots[i].time_period,
                                        BucketRows(rows, view_type, slots[i].slot))]]]

\* chart_analytics.py lines 24-147: the groups by age group and gender, the
\* ones whose lowered gender is neither 'male' nor 'female' skipped; the
\* list is kept as the bag of its entries
RECURSIVE ChartEntries(_)
ChartEntries(rows) ==
    IF rows = {} THEN EmptyBag
    ELSE LET row == CHOOSE r \in rows : TRUE
             gender_value == lower(row.gender)
         IN  (IF gender_value \notin {"male", "female"} THEN EmptyBag
              ELSE SetToBag({[age_group |-> row.age_group,
                              gender |-> gender_value,
                              total_dwell_time |-> row.sum_sec,
                              avg_dwell_time |-> <<row.sum_sec, row.event_count>>,
                              event_count |-> row.event_count]}))
             (+) ChartEntries(rows \ {row})

get_chart_data(table) ==
    [status |-> 200, detail |-> NONE,
     body |-> [chart_data |->
                  ChartEntries(GroupedQuery(table, 1..Len(table), NONE, TRUE, TRUE))]]

\* the tables of at most MaxSeries rows
RECURSIVE TablesOfSize(_)
TablesOfSize(n) ==
    IF n = 0 THEN {EmptyBag}
    ELSE {B (+) SetToBag({x}) : B \in TablesOfSize(n - 1), x \in SeriesEvents}

SeriesTables == UNION {TablesOfSize(n) : n \in 0..MaxSeries}

InitSeries ==
    /\ events \in SeriesTables
    /\ sessions = EmptyBag
    /\ autoflush = TRUE
    /\ run = NoRun
    /\ cache = {}
    /\ workers = <<>>
    /\ request = NoRequest
    /\ response = NoResponse
    /\ group = GroupKeys[1]
    /\ entries = <<>>
    /\ exits = <<>>
    /\ entry_idx = 0
    /\ exit_idx = 0
    /\ pairs = <<>>
    /\ pc = "idle"
    /\ result = <<>>
    /\ discarded = {}
    /\ iterations = 0

\* one request to each endpoint. A request writes nothing, so a second one
\* finds what the first found: every behaviour makes one.
GetDwellTimeTimeSeries ==
    /\ request = NoRequest
    /\ \E view_type \in SeriesViews, metric_type \in Metrics,
          breakdown \in Breakdowns :
         /\ request' = [endpoint |-> "dwell-time-time-series",
                        view_type |-> view_type, metric_type |-> metric_type,
                        breakdown |-> breakdown]
         /\ response' = get_dwell_time_time_series(BagToSeq(events), view_type,
                                                   metric_type, breakdown)
    /\ UNCHANGED <<dbVars, matchVars>>

GetFootTrafficTimeSeries ==
    /\ request = NoRequest
    /\ \E view_type \in SeriesViews, breakdown \in Breakdowns :
         /\ request' = [endpoint |-> "foot-traffic-time-series",
                        view_type |-> view_type, breakdown |-> breakdown]
         /\ response' = get_foot_traffic_time_series(BagToSeq(events), view_type,
                                                     breakdown)
    /\ UNCHANGED <<dbVars, matchVars>>

GetFootTrafficData ==
    /\ request = NoRequest
    /\ \E view_type \in SeriesViews :
         /\ request' = [endpoint |-> "foot-traffic-data", view_type |-> view_type]
         /\ response' = get_foot_traffic_data(BagToSeq(events), view_type)
    /\ UNCHANGED <<dbVars, matchVars>>

GetChartData ==
    /\ request = NoRequest
    /\ request' = [endpoint |-> "chart-data"]
    /\ response' = get_chart_data(BagToSeq(events))
    /\ UNCHANGED <<dbVars, matchVars>>

NextSeries ==
    \/ GetDwellTimeTimeSeries
    \/ GetFootTrafficTimeSeries
    \/ GetFootTrafficData
    \/ GetChartData

SpecSeries == InitSeries /\ [][NextSeries]_vars

\* the endpoints that answer one bucket per hour or per day of the week
BucketedEndpoints ==
    {"dwell-time-time-series", "foot-traffic-time-series", "foot-traffic-data"}

\* the last request asked one of them for the view
Asked(view_type) ==
    /\ request.endpoint \in BucketedEndpoints
    /\ request.view_type = view_type

\* the label of an hour on the twelve-hour clock
HourLabel(hour) ==
    ToString(IF hour > 12 THEN hour - 12 ELSE hour)
        \o (IF hour < 12 THEN " AM" ELSE " PM")

\* the reporting slot of a database day of the week: Monday first, Sunday last
Remap(d) == IF d = 0 THEN 6 ELSE d - 1

\* the stored events that fall into bucket i of the view
InSlot(view_type, i) ==
    {e \in Range(EventRows(events)) :
        IF view_type = "hourly"
        THEN extract("hour", e) = 9 + i
        ELSE Remap(extract("dow", e)) = i - 1}

\* an event every breakdown counts
MaleOrFemaleAdult(e) ==
    /\ e.gender_outcome \in {"male", "female"}
    /\ e.age_group_outcome = "adult"

\* what a bucket counted: events, or distinct visitors
BucketCount(bucket) ==
    IF "sample_size" \in DOMAIN bucket THEN bucket.sample_size
    ELSE bucket.total_count

\* a bucket of zeros and empty breakdown lists
IsZeroBucket(bucket) ==
    \A field \in DOMAIN bucket \ {"time_period"} :
        IF field = "age_groups" THEN bucket[field] = {}
        ELSE IF field = "gender_age"
        THEN bucket[field].male = {} /\ bucket[field].female = {}
        ELSE bucket[field] = 0

MaleOrFemale(S) ==
    {e \in S : lower(coalesce(e.gender_outcome, "other")) \in {"male", "female"}}

Conclusive(S) ==
    {e \in S : lower(coalesce(e.age_group_outcome, "Other")) # "inconclusive"}

\* the age groups a bucket's breakdown lists
ListedAgeGroups(bucket) ==
    IF "age_groups" \in DOMAIN bucket
    THEN {x.age_group : x \in bucket.age_groups}
    ELSE {x.age_group : x \in bucket.gender_age.male \cup bucket.gender_age.female}

CarriesSession(table, session, event_type, timestamp) ==
    \E i \in 1..Len(table) :
        /\ table[i].person_id = session.person_id
        /\ table[i].camera_id = session.camera_id
        /\ table[i].event_type = event_type
        /\ table[i].processed_timestamp = timestamp
        /\ table[i].session_id = session.session_id
        /\ table[i].dwell_duration = session.dwell_duration

\* C20: whatever is stored and whatever window is asked, after a run of
\* calculate_dwell_times that returns, every session the run emitted has an
\* entry event at its entry_time and an exit event at its exit_time that
\* carry its session_id and its dwell_duration.
C20_EventsCarrySession ==
    \A start_date \in Dates, end_date \in Dates :
        LET r == calculate_dwell_times(Database, start_date, end_date, "none")
        IN  r.outcome = "returned"
            => \A k \in 1..Len(r.session_list) :
                  /\ CarriesSession(r.events, r.session_list[k], "entry",
                                    r.session_list[k].entry_time)
                  /\ CarriesSession(r.events, r.session_list[k], "exit",
                                    r.session_list[k].exit_time)

-----------------------------------------------------------------------------
(* SpecCache: AnalyticsService.get_comprehensive_analytics and its cache    *)
(* (services/analytics_service.py, table analytics_cache) next to           *)
(* ingestion and reconstruction                                             *)

MaxCacheEvents == 3   \* rows of camera_events under SpecCache

\* line 250: f"analytics_{start_date}_{end_date}" when both dates are given,
\* "analytics_all" otherwise. A datetime prints with all its fields, so the
\* first form is the pair of the dates; the pair of two NULLs stands for
\* "analytics_all".
cache_key(start_date, end_date) ==
    IF start_date # NULL /\ end_date # NULL
    THEN <<start_date, end_date>>
    ELSE <<NULL, NULL>>

\* lines 194-206: the data of the key's entry that has not expired, or None
\* (found FALSE)
get_cached_analytics(table, key) ==
    LET rows == {row \in table : row.cache_key = key /\ ~row.expired}
    IN  IF rows = {} THEN [found |-> FALSE, data |-> <<>>]
        ELSE [found |-> TRUE, data |-> (CHOOSE row \in rows : TRUE).metric_data]

\* json.dumps of the combined analytics: a period of the occupancy data is a
\* pandas Timestamp and its counts are numpy integers, which json.dumps
\* refuses (TypeError); without sessions every value is an int, a float, a
\* string, None or an empty container, and json.loads gives the data back
json_serializable(data) == data.occupancy_analytics.occupancy_data = {}

\* lines 212-242: the entry of the key is written with a new expiry, unless
\* json.dumps raises, which `except Exception` turns into `return False`
cache_analytics(table, key, data) ==
    IF ~json_serializable(data) THEN table
    ELSE {row \in table : row.cache_key # key}
            \cup {[cache_key |-> key, metric_data |-> data, expired |-> FALSE]}

\* lines 26-30: CameraEvent has no attribute `timestamp` (camera_events.py
\* lines 5-95), so a call with a date raises AttributeError, which line 76
\* turns into AnalyticsError
kpi_raises(start_date, end_date) == start_date # NULL \/ end_date # NULL

\* dt.floor('H') of a timestamp in ticks
floor_hour(timestamp) == timestamp \div (TicksPerSecond * 3600)

\* lines 80-137 with time_period = 'hour'
calculate_occupancy_analytics(db, start_date, end_date) ==
    LET hit == SelectSeq(db.sessions,
                         LAMBDA row : SessionInWindow(row, start_date, end_date))
        periods == {floor_hour(hit[i].entry_time) : i \in 1..Len(hit)}
        Of(period) == {i \in 1..Len(hit) : floor_hour(hit[i].entry_time) = period}
        occupancy ==
            {[period |-> period,
              visitor_count |-> Cardinality(Of(period)),
              camera_count |-> Cardinality({hit[i].camera_id : i \in Of(period)})] :
                period \in periods}
        counts == {[period |-> row.period, n |-> row.visitor_count] : row \in occupancy}
    IN  IF hit = <<>>
        THEN [occupancy_data |-> {}, summary |-> <<>>]
        ELSE [occupancy_data |-> occupancy,
              summary |->
                  [total_periods |-> Cardinality(occupancy),
                   max_visitors_period |->
                       CHOOSE n \in {row.visitor_count : row \in occupancy} :
                           \A row \in occupancy : row.visitor_count <= n,
                   avg_visitors_period |->
                       <<SumColumn(counts, "n"), Cardinality(occupancy)>>]]

\* lines 139-189; repeat_rate in hundredths of a percent
calculate_repeat_visitor_stats(db, start_date, end_date) ==
    LET hit == SelectSeq(db.sessions,
                         LAMBDA row : SessionInWindow(row, start_date, end_date))
        visitors == {hit[i].person_id : i \in 1..Len(hit)}
        visitor_counts ==
            [p \in visitors |->
                Cardinality({i \in 1..Len(hit) : hit[i].person_id = p})]
        repeat_visitors == Cardinality({p \in visitors : visitor_counts[p] > 1})
    IN  IF hit = <<>>
        THEN [repeat_visitors |-> 0, unique_visitors |-> 0, repeat_rate |-> 0,
              visitor_frequency |-> {}]
        ELSE [repeat_visitors |-> repeat_visitors,
              unique_visitors |-> Cardinality(visitors),
              repeat_rate |->
                  round_half_even(repeat_visitors * 100 * 100,
                                  Cardinality(visitors)),
              visitor_frequency |->
                  {[visits |-> n,
                    persons |-> Cardinality({p \in visitors : visitor_counts[p] = n})] :
                      n \in {visitor_counts[p] : p \in visitors}}]

\* lines 244-282, on the database db and the rows of analytics_cache; the
\* calculated_at stamps are left out
get_comprehensive_analytics(db, table, start_date, end_date) ==
    LET key == cache_key(start_date, end_date)
        cached_data == get_cached_analytics(table, key)
        comprehensive_analytics ==
            [kpi_metrics |-> calculate_kpi_metrics(db),
             occupancy_analytics |->
                 calculate_occupancy_analytics(db, start_date, end_date),
             repeat_visitor_stats |->
                 calculate_repeat_visitor_stats(db, start_date, end_date),
             date_range |-> [start_date |-> start_date, end_date |-> end_date]]
    IN  IF cached_data.found
        THEN [raised |-> NONE, value |-> cached_data.data, cache |-> table,
              hit |-> TRUE]
        ELSE IF kpi_raises(start_date, end_date)
        THEN [raised |-> "AnalyticsError", value |-> <<>>, cache |-> table,
              hit |-> FALSE]
        ELSE [raised |-> NONE, value |-> comprehensive_analytics,
              cache |-> cache_analytics(table, key, comprehensive_analytics),
              hit |-> FALSE]

\* the dates a caller of get_comprehensive_analytics passes
CacheDates == {NULL, 0}

\* one call of get_comprehensive_analytics(start_date, end_date)
GetComprehensiveAnalytics ==
    /\ \E start_date \in CacheDates, end_date \in CacheDates :
         \E r \in {get_comprehensive_analytics(Database, cache, start_date,
                                               end_date)} :
            /\ request' = [endpoint |-> "get_comprehensive_analytics",
                           start_date |-> start_date, end_date |-> end_date]
            /\ response' = [raised |-> r.raised, value |-> r.value]
            /\ cache' = r.cache
    /\ UNCHANGED <<events, sessions, autoflush, workers, run, matchVars>>

\* more than expires_in_hours = 1 hour passes: `expires_at > datetime.now()`
\* (line 200) is false for every entry written before
HourPasses ==
    /\ \E row \in cache : ~row.expired
    /\ cache' = {[row EXCEPT !.expired = TRUE] : row \in cache}
    /\ UNCHANGED <<events, sessions, autoflush, workers, run, matchVars, apiVars>>

\* ingestion as in Spec, of at most MaxCacheEvents events
IngestBeforeAnalytics ==
    /\ BagCardinality(events) < MaxCacheEvents
    /\ Ingest

\* a call of calculate_dwell_times() over all events that no exception strikes
CalculateBeforeAnalytics ==
    /\ \E r \in {calculate_dwell_times(Database, NULL, NULL, "none")} :
         /\ events' = EventBag(r.events)
         /\ sessions' = SeqToBag(r.sessions)
         /\ run' = [outcome |-> r.outcome, summary |-> r.summary]
    /\ UNCHANGED <<autoflush, workers, cache, matchVars, apiVars>>

NextCache ==
    \/ IngestBeforeAnalytics
    \/ CalculateBeforeAnalytics
    \/ GetComprehensiveAnalytics
    \/ HourPasses

SpecCache == Init /\ [][NextCache]_vars

\* what a call answers now, from the cache as it is and from an empty cache
Served(start_date, end_date) ==
    get_comprehensive_analytics(Database, cache, start_date, end_date)

Fresh(start_date, end_date) ==
    get_comprehensive_analytics(Database, {}, start_date, end_date)

\* C21: the cache changes the latency only. After any ingestions,
\* reconstruction runs, calls and expiries, whatever get_comprehensive_analytics
\* answers for a date range is what it computes for that range from the
\* current events and sessions with an empty cache (the calculated_at stamps
\* aside).
C21_CacheOnlyLatency ==
    \A start_date \in CacheDates, end_date \in CacheDates :
        Served(start_date, end_date).raised = NONE
            => /\ Fresh(start_date, end_date).raised = NONE
               /\ Served(start_date, end_date).value
                     = Fresh(start_date, end_date).value

\* C29: a call is never answered from the cache entry of another date range:
\* what the cache serves for (start_date, end_date) was computed for exactly
\* these two bounds, also when one of them is absent.
C29_OwnCacheEntry ==
    \A start_date \in CacheDates, end_date \in CacheDates :
        Served(start_date, end_date).hit
            => Served(start_date, end_date).value.date_range
                  = [start_date |-> start_date, end_date |-> end_date]

\* the events of the pair that the window selects, by type
Selected(key, event_type, start_date, end_date) ==
    {i \in 1..Len(Database.events) :
        /\ HasKey(Database.events[i], key)
        /\ Database.events[i].event_type = event_type
        /\ InWindow(Database.events[i], start_date, end_date)}

\* C22: whatever is stored, a run of calculate_dwell_times that no database
\* exception strikes returns normally over a window without events, with
\* sessions_processed 0 and total_dwell_time 0 and person_sessions as it was;
\* and over any window, a pair without an entry or without an exit in the
\* window has no session in the run, which returns all the same.
C22_NoDataNoError ==
    \A start_date \in Dates, end_date \in Dates :
        LET r == calculate_dwell_times(Database, start_date, end_date, "none")
            Empty(event_type) ==
                \A k \in 1..Len(GroupKeys) :
                    Selected(GroupKeys[k], event_type, start_date, end_date) = {}
        IN  /\ (Empty("entry") /\ Empty("exit"))
                 => /\ r.outcome = "returned"
                    /\ r.summary.sessions_processed = 0
                    /\ r.summary.total_dwell_time = 0
                    /\ r.sessions = Database.sessions
            /\ \A k \in 1..Len(GroupKeys) :
                 (\/ Selected(GroupKeys[k], "entry", start_date, end_date) = {}
                  \/ Selected(GroupKeys[k], "exit", start_date, end_date) = {})
                 => \A i \in 1..Len(r.session_list) :
                       ~HasKey(r.session_list[i], GroupKeys[k])
            /\ (Empty("entry") \/ Empty("exit")) => r.outcome = "returned"

\* a run over stored events that are all entries returned with no session
C22_Witness ==
    /\ events # EmptyBag
    /\ \A e \in BagToSet(events) : e.event_type = "entry"
    /\ run.outcome = "returned"
    /\ run.summary.sessions_processed = 0
    /\ sessions = EmptyBag

-----------------------------------------------------------------------------
(* SpecParse: CSVProcessor.process_csv_file on files of one row whose       *)
(* timestamp cell may be unreadable, next to reconstruction                 *)

MaxParsed == 3        \* rows of camera_events under SpecParse

\* the timestamp cell of a CSV row: a time, or NULL for a cell that is empty
\* or that to_numeric / to_datetime(errors='coerce') cannot read
TimestampCells == Times \cup {NULL}

\* csv_processor.py lines 139-148: the parsed cell, a NaT filled with
\* pd.Timestamp.now()
parse_timestamps(cell, now) == IF cell = NULL THEN now ELSE cell

\* process_csv_file (lines 240-253) on a file of one row, read at the time
\* now: parse_timestamps, clean_and_prepare_data and _insert_chunk
ProcessCsvRow ==
    /\ BagCardinality(events) < MaxParsed
    /\ \E ty \in EventTypes, cell \in TimestampCells, now \in Times :
         /\ events' = events (+) SetToBag({IngestedEvent(GroupKeys[1], ty,
                                             parse_timestamps(cell, now))})
         /\ request' = [endpoint |-> "process_csv_file", event_type |-> ty,
                        timestamp |-> cell]
         /\ response' = [status |-> 200, detail |-> NONE, body |-> <<>>]
    /\ UNCHANGED <<sessions, autoflush, workers, run, cache, matchVars>>

NextParse == ProcessCsvRow \/ CalculateBeforeAnalytics

SpecParse == Init /\ [][NextParse]_vars

\* the sessions a run over all events emits from the rows B of camera_events,
\* or "ProcessingError"
SessionsOver(B) ==
    LET r == calculate_dwell_times([events |-> EventRows(B),
                                    sessions |-> BagToSeq(sessions),
                                    autoflush |-> autoflush],
                                   NULL, NULL, "none")
    IN  [outcome |-> r.outcome, emitted |-> SeqToBag(r.session_list)]

-----------------------------------------------------------------------------
(* SpecDates: the endpoints of api/analytics that take start_date and       *)
(* end_date as text, over rows of camera_events that carry a date. A time   *)
(* is a number of hours since 2025-01-01 00:00.                             *)

MaxDated == 2         \* rows of camera_events under SpecDates
MaxDay == 9           \* requests arrive on the days MaxDay - 1 and MaxDay

\* the day `day` (days since 2025-01-01) at the hour `hour`
datetime(day, hour) == day * 24 + hour

\* a date parameter, as the numbers between its '-' (NULL for a part that is
\* no number): absent or empty, 2025-01-03, 2025-01-06, 2025-13-01 and
\* invalid-date
Absent == <<>>
DateTexts == {Absent, <<2025, 1, 3>>, <<2025, 1, 6>>, <<2025, 13, 1>>,
              <<NULL, NULL>>}

DaysInMonth == <<31, 28, 31, 30, 31, 30, 31, 31, 30, 31, 30, 31>>

\* datetime.fromisoformat on a date of 2025: midnight of the day, or
\* ValueError
fromisoformat(date_string) ==
    IF /\ Len(date_string) = 3
       /\ date_string[1] = 2025
       /\ date_string[2] \in 1..12
       /\ date_string[3] \in 1..DaysInMonth[date_string[2]]
    THEN [raised |-> NONE,
          value |-> datetime(SumSeq(SubSeq(DaysInMonth, 1, date_string[2] - 1))
                                + date_string[3] - 1, 0)]
    ELSE [raised |-> "ValueError", value |-> NULL]

\* end_dt.replace(hour=23, minute=59, second=59, microsecond=999999): the
\* last hour of the day of dt
end_of_day(dt) == datetime(dt \div 24, 23)

\* the parsing every endpoint repeats (dwell_time_analytics.py lines 36-49):
\* `if start_date: try: fromisoformat except ValueError: raise
\* HTTPException(400)`, then the same for end_date, which is moved to the end
\* of its day where the endpoint does that. NULL is None.
ParseBounds(start_date, end_date, to_end_of_day) ==
    LET s == fromisoformat(start_date)
        e == fromisoformat(end_date)
    IN  IF start_date # Absent /\ s.raised # NONE
        THEN [status |-> 400, start_dt |-> NULL, end_dt |-> NULL,
              detail |-> "Invalid start_date format. Use YYYY-MM-DD"]
        ELSE IF end_date # Absent /\ e.raised # NONE
        THEN [status |-> 400, start_dt |-> NULL, end_dt |-> NULL,
              detail |-> "Invalid end_date format. Use YYYY-MM-DD"]
        ELSE [status |-> 0, detail |-> NONE,
              start_dt |-> IF start_date = Absent THEN NULL ELSE s.value,
              end_dt |-> IF end_date = Absent THEN NULL
                         ELSE IF to_end_of_day THEN end_of_day(e.value)
                         ELSE e.value]

\* `if not start_dt or not end_dt:` with its two assignments
\* (dwell_time_analytics.py lines 184-186, chart_analytics.py lines 407-409,
\* store_rankings.py lines 31-34), on the day `today` of datetime.now()
TrailingWeek(bounds, today) ==
    IF bounds.start_dt = NULL \/ bounds.end_dt = NULL
    THEN [bounds EXCEPT !.start_dt = datetime(today - 7, 0),
                        !.end_dt = datetime(today, 23)]
    ELSE bounds

\* utc_time_started_readable of a row started on the day `day` at 10:00;
\* 2025-01-01 is a Wednesday, 3 for extract('dow')
StartedOn(day) == [dow |-> (day + 3) % 7, hour |-> 10, day |-> day]

StartedAt(row) == datetime(row.utc_time_started_readable.day,
                           row.utc_time_started_readable.hour)

\* the rows of camera_events under SpecDates: of one camera of one store,
\* created on 2025-01-05 at 12:00, with a dwell_time below and above the 600
\* seconds of the waiting-time endpoint
DatedEvents ==
    [person_id : Range(Persons),
     utc_time_started_readable : {StartedOn(0), StartedOn(1), StartedOn(4),
                                  StartedOn(7)},
     created_at : {datetime(4, 12)},
     camera_group : {"north"},
     camera_description : {"door"},
     gender_outcome : {"male"},
     age_group_outcome : {"adult"},
     dwell_time : {90, 700}]

\* the members of the set of integers S in ascending order
SortedSeq(S) ==
    [i \in 1..Cardinality(S) |->
        CHOOSE x \in S : Cardinality({y \in S : y < x}) = i - 1]

\* waiting_time_analytics.py lines 201-207: `except HTTPException: raise`
\* comes before `except Exception`. With a defect: the clause is missing.
waiting_time_except_swallows(exc) == HTTPException(500, "Internal server error")

waiting_time_except(exc) == exc

\* waiting_time_analytics.py lines 24-207 without camera_ids and
\* camera_groups
get_waiting_time_analytics(table, view_type, start_date, end_date) ==
    LET bounds == ParseBounds(start_date, end_date, FALSE)
        hit == {i \in 1..Len(table) :
                  /\ table[i].dwell_time > 600
                  /\ bounds.start_dt # NULL => StartedAt(table[i]) >= bounds.start_dt
                  /\ bounds.end_dt # NULL
                        => StartedAt(table[i]) < bounds.end_dt + datetime(1, 0)}
        time_trunc(i) == IF view_type = "hourly" THEN StartedAt(table[i])
                         ELSE datetime(StartedAt(table[i]) \div 24, 0)
        time_periods == SortedSeq({time_trunc(i) : i \in hit})
        data == [k \in 1..Len(time_periods) |->
                    [time_period |-> time_periods[k],
                     waiting_count |->
                         Cardinality({table[i].person_id :
                                        i \in {j \in hit : time_trunc(j) = time_periods[k]}}),
                     camera_info |-> [camera_group |-> "All",
                                      camera_description |-> ""]]]
        total_records == SumSeq([k \in 1..Len(data) |-> data[k].waiting_count])
    IN  IF view_type \notin {"hourly", "daily"}
        THEN waiting_time_except(
                 HTTPException(400, "Invalid view_type. Must be hourly or daily"))
        ELSE IF bounds.status = 400
        THEN waiting_time_except(HTTPException(400, bounds.detail))
        ELSE [status |-> 200, detail |-> NONE,
              body |-> [data |-> data,
                        metadata |->
                            [total_records |-> total_records,
                             filtered_records |-> total_records,
                             time_range |->
                                 IF data = <<>> THEN [start |-> NULL, end |-> NULL]
                                 ELSE [start |-> time_periods[1],
                                       end |-> time_periods[Len(time_periods)]]]]]

\* the last clause of the other endpoints, `except Exception as e: raise
\* HTTPException(status_code=500, detail="Internal server error")`
\* (dwell_time_analytics.py lines 70-72, 143-145 and 429-431,
\* occupancy_analytics.py lines 67-69, chart_analytics.py lines 574-576): an
\* HTTPException is an Exception and no clause before this one lets it pass
except_Exception(exc) == HTTPException(500, "Internal server error")

\* dwell_time_analytics.py lines 26-72, the endpoint over
\* DwellTimeEngine.get_dwell_time_analytics
get_dwell_time_analytics_endpoint(db, start_date, end_date, group_by) ==
    LET bounds == ParseBounds(start_date, end_date, FALSE)
        analytics == get_dwell_time_analytics(db.sessions, bounds.start_dt,
                                              bounds.end_dt, group_by)
    IN  IF bounds.status = 400
        THEN except_Exception(HTTPException(400, bounds.detail))
        ELSE IF group_by \notin {"person", "camera"}
        THEN except_Exception(
                 HTTPException(400, "Invalid group_by. Must be person or camera"))
        ELSE IF analytics.raised # NONE
        THEN except_Exception(analytics.raised)
        ELSE [status |-> 200, detail |-> NONE,
              body |-> [dwell_time_analytics |-> analytics.value]]

\* dwell_time_analytics.py lines 74-145: sum, avg, count, min and max of
\* dwell_time per value of the column group_by, over the rows created inside
\* the bounds
get_aggregated_dwell_time_analytics(table, group_by, start_date, end_date) ==
    LET bounds == ParseBounds(start_date, end_date, FALSE)
        hit == {i \in 1..Len(table) :
                  /\ bounds.start_dt # NULL => table[i].created_at >= bounds.start_dt
                  /\ bounds.end_dt # NULL => table[i].created_at <= bounds.end_dt}
        Of(group_value) == {i \in hit : table[i][group_by] = group_value}
        Dwell(group_value) == SortedSeq({table[i].dwell_time : i \in Of(group_value)})
        Total(group_value) ==
            SumColumn({[id |-> i, dwell_time |-> table[i].dwell_time] :
                         i \in Of(group_value)}, "dwell_time")
    IN  IF group_by \notin {"person_id", "camera_description"}
        THEN except_Exception(
                 HTTPException(400, "Invalid group_by. Must be person_id or camera_description"))
        ELSE IF bounds.status = 400
        THEN except_Exception(HTTPException(400, bounds.detail))
        ELSE [status |-> 200, detail |-> NONE,
              body |-> [analytics |->
                  {[group_value |-> g,
                    total_dwell_time |-> Total(g),
                    avg_dwell_time |-> <<Total(g), Cardinality(Of(g))>>,
                    event_count |-> Cardinality(Of(g)),
                    min_dwell_time |-> Dwell(g)[1],
                    max_dwell_time |-> Dwell(g)[Len(Dwell(g))]] :
                      g \in {table[i][group_by] : i \in hit}}]]

\* occupancy_analytics.py lines 23-69, the endpoint over
\* AnalyticsService.calculate_occupancy_analytics; of the supported periods
\* the requests of the model take 'hour'
get_occupancy_analytics(db, start_date, end_date, time_period) ==
    LET bounds == ParseBounds(start_date, end_date, FALSE)
    IN  IF bounds.status = 400
        THEN except_Exception(HTTPException(400, bounds.detail))
        ELSE IF time_period \notin {"hour", "day", "week"}
        THEN except_Exception(
                 HTTPException(400, "Invalid time_period. Must be hour, day, or week"))
        ELSE [status |-> 200, detail |-> NONE,
              body |-> [occupancy_analytics |->
                  calculate_occupancy_analytics(db, bounds.start_dt, bounds.end_dt)]]

\* the two filters on utc_time_started_readable (dwell_time_analytics.py
\* lines 196-197, chart_analytics.py lines 419-420, store_rankings.py lines
\* 62-63)
Queried(table, bounds) ==
    SelectSeq(table, LAMBDA row : /\ StartedAt(row) >= bounds.start_dt
                                  /\ StartedAt(row) <= bounds.end_dt)

\* dwell_time_analytics.py lines 148-431 with start_date and end_date, a
\* request handled on the day `today`
get_dwell_time_time_series_dated(table, view_type, metric_type, breakdown, start_date, end_date, today) ==
    LET parsed == ParseBounds(start_date, end_date, TRUE)
        bounds == TrailingWeek(parsed, today)
    IN  IF view_type \notin SeriesViews
        THEN except_Exception(
                 HTTPException(400, "Invalid view_type. Must be hourly or daily"))
        ELSE IF metric_type \notin Metrics
        THEN except_Exception(
                 HTTPException(400, "Invalid metric_type. Must be average or total"))
        ELSE IF breakdown \notin Breakdowns
        THEN except_Exception(
                 HTTPException(400, "Invalid breakdown. Must be none, gender, age, or gender_age"))
        ELSE IF parsed.status = 400
        THEN except_Exception(HTTPException(400, parsed.detail))
        ELSE get_dwell_time_time_series(Queried(table, bounds), view_type,
                                        metric_type, breakdown)

\* chart_analytics.py lines 374-576 with start_date and end_date
get_foot_traffic_time_series_dated(table, view_type, breakdown, start_date, end_date, today) ==
    LET parsed == ParseBounds(start_date, end_date, TRUE)
        bounds == TrailingWeek(parsed, today)
    IN  IF view_type \notin SeriesViews
        THEN except_Exception(
                 HTTPException(400, "Invalid view_type. Must be hourly or daily"))
        ELSE IF breakdown \notin Breakdowns
        THEN except_Exception(
                 HTTPException(400, "Invalid breakdown. Must be none, gender, age, or gender_age"))
        ELSE IF parsed.status = 400
        THEN except_Exception(HTTPException(400, parsed.detail))
        ELSE get_foot_traffic_time_series(Queried(table, bounds), view_type,
                                          breakdown)

\* store_rankings.py lines 16-35
_parse_dates(start_date, end_date, today) ==
    TrailingWeek(ParseBounds(start_date, end_date, TRUE), today)

StoreMetrics == {"visitors", "dwell_total", "dwell_avg", "wait_10m",
                 "repeat_rate", "momentum", "underperformers"}

\* store_rankings.py lines 38-151 with the default order and limit and
\* without division and department. Its `except HTTPException: raise` lets
\* the 400 of the validation pass. The rows are kept as a set: fewer stores
\* than the limit, and ORDER BY leaves equal values in any order.
get_store_rankings(table, metric, start_date, end_date, today) ==
    LET parsed == ParseBounds(start_date, end_date, TRUE)
        bounds == _parse_dates(start_date, end_date, today)
        base == Queried(table, bounds)
        stores == {base[i].camera_group : i \in 1..Len(base)}
        Of(store) == {i \in 1..Len(base) : base[i].camera_group = store}
        per_day(store) ==
            {[day |-> day,
              daily_visitors |->
                  Cardinality({base[i].person_id :
                     i \in {j \in Of(store) :
                              base[j].utc_time_started_readable.day = day}})] :
                day \in {base[i].utc_time_started_readable.day : i \in Of(store)}}
        Total(store) ==
            SumColumn({[id |-> i, dwell_time |-> base[i].dwell_time] :
                         i \in Of(store)}, "dwell_time")
        rows ==
            IF metric = "visitors"
            THEN {[store |-> store,
                   value |-> <<SumColumn(per_day(store), "daily_visitors"), 1>>,
                   delta |-> 0] : store \in stores}
            ELSE IF metric = "dwell_avg"
            THEN {[store |-> store,
                   value |-> <<Total(store), Cardinality(Of(store))>>,
                   delta |-> 0] : store \in stores}
            ELSE {}
    IN  IF parsed.status = 400
        THEN HTTPException(400, parsed.detail)
        ELSE IF metric \notin StoreMetrics
        THEN HTTPException(400, "Invalid metric")
        ELSE [status |-> 200, detail |-> NONE,
              body |-> [metric |-> metric,
                        rows |-> rows,
                        parameters |->
                            [start_date |-> bounds.start_dt \div 24,
                             end_date |-> bounds.end_dt \div 24,
                             order |-> IF metric = "visitors" THEN "desc"
                                       ELSE IF metric = "dwell_avg" THEN "asc"
                                       ELSE NONE]]]

\* the tables of at most MaxDated rows
RECURSIVE DatedTablesOfSize(_)
DatedTablesOfSize(n) ==
    IF n = 0 THEN {EmptyBag}
    ELSE {B (+) SetToBag({x}) : B \in DatedTablesOfSize(n - 1), x \in DatedEvents}

InitDates ==
    /\ events \in UNION {DatedTablesOfSize(n) : n \in 0..MaxDated}
    /\ sessions = EmptyBag
    /\ autoflush = TRUE
    /\ run = NoRun
    /\ cache = {}
    /\ workers = <<>>
    /\ request = NoRequest
    /\ response = NoResponse
    /\ group = GroupKeys[1]
    /\ entries = <<>>
    /\ exits = <<>>
    /\ entry_idx = 0
    /\ exit_idx = 0
    /\ pairs = <<>>
    /\ pc = "idle"
    /\ result = <<>>
    /\ discarded = {}
    /\ iterations = 0

\* the days on which a request is handled
Todays == {MaxDay - 1, MaxDay}

\* one request to each endpoint. A request writes nothing, so a second one
\* finds what the first found: every behaviour makes one.
GetWaitingTime ==
    /\ request = NoRequest
    /\ \E view_type \in {"hourly", "daily", "weekly"},
          start_date \in DateTexts, end_date \in DateTexts :
         /\ request' = [endpoint |-> "waiting-time", view_type |-> view_type,
                        start_date |-> start_date, end_date |-> end_date]
         /\ response' = get_waiting_time_analytics(BagToSeq(events), view_type,
                                                   start_date, end_date)
    /\ UNCHANGED <<dbVars, matchVars>>

GetDwellTimeAnalytics ==
    /\ request = NoRequest
    /\ \E start_date \in DateTexts, end_date \in DateTexts, group_by \in GroupBys :
         /\ request' = [endpoint |-> "dwell-time-analytics", group_by |-> group_by,
                        start_date |-> start_date, end_date |-> end_date]
         /\ response' = get_dwell_time_analytics_endpoint(Database, start_date,
                                                          end_date, group_by)
    /\ UNCHANGED <<dbVars, matchVars>>

GetAggregatedDwellTime ==
    /\ request = NoRequest
    /\ \E group_by \in {"person_id", "camera_description", "zone"},
          start_date \in DateTexts, end_date \in DateTexts :
         /\ request' = [endpoint |-> "aggregated-dwell-time", group_by |-> group_by,
                        start_date |-> start_date, end_date |-> end_date]
         /\ response' = get_aggregated_dwell_time_analytics(BagToSeq(events),
                            group_by, start_date, end_date)
    /\ UNCHANGED <<dbVars, matchVars>>

GetOccupancyAnalytics ==
    /\ request = NoRequest
    /\ \E start_date \in DateTexts, end_date \in DateTexts,
          time_period \in {"hour", "minute"} :
         /\ request' = [endpoint |-> "occupancy-analytics",
                        time_period |-> time_period,
                        start_date |-> start_date, end_date |-> end_date]
         /\ response' = get_occupancy_analytics(Database, start_date, end_date,
                                                time_period)
    /\ UNCHANGED <<dbVars, matchVars>>

GetDwellTimeTimeSeriesDated ==
    /\ request = NoRequest
    /\ \E view_type \in {"hourly", "weekly"}, metric_type \in {"average", "median"},
          breakdown \in {"none", "store"},
          start_date \in DateTexts, end_date \in DateTexts, today \in Todays :
         /\ request' = [endpoint |-> "dwell-time-time-series",
                        view_type |-> view_type, metric_type |-> metric_type,
                        breakdown |-> breakdown, start_date |-> start_date,
                        end_date |-> end_date, today |-> today]
         /\ response' = get_dwell_time_time_series_dated(BagToSeq(events),
                            view_type, metric_type, breakdown, start_date,
                            end_date, today)
    /\ UNCHANGED <<dbVars, matchVars>>

GetFootTrafficTimeSeriesDated ==
    /\ request = NoRequest
    /\ \E view_type \in {"daily", "weekly"}, breakdown \in {"gender", "store"},
          start_date \in DateTexts, end_date \in DateTexts, today \in Todays :
         /\ request' = [endpoint |-> "foot-traffic-time-series",
                        view_type |-> view_type, breakdown |-> breakdown,
                        start_date |-> start_date, end_date |-> end_date,
                        today |-> today]
         /\ response' = get_foot_traffic_time_series_dated(BagToSeq(events),
                            view_type, breakdown, start_date, end_date, today)
    /\ UNCHANGED <<dbVars, matchVars>>

GetStoreRankings ==
    /\ request = NoRequest
    /\ \E metric \in {"visitors", "dwell_avg", "momentum", "sales"},
          start_date \in DateTexts, end_date \in DateTexts, today \in Todays :
         /\ request' = [endpoint |-> "store-rankings", metric |-> metric,
                        start_date |-> start_date, end_date |-> end_date,
                        today |-> today]
         /\ response' = get_store_rankings(BagToSeq(events), metric, start_date,
                                           end_date, today)
    /\ UNCHANGED <<dbVars, matchVars>>

NextDates ==
    \/ GetWaitingTime
    \/ GetDwellTimeAnalytics
    \/ GetAggregatedDwellTime
    \/ GetOccupancyAnalytics
    \/ GetDwellTimeTimeSeriesDated
    \/ GetFootTrafficTimeSeriesDated
    \/ GetStoreRankings

SpecDates == InitDates /\ [][NextDates]_vars

\* a date parameter that is given and is no ISO date
Malformed(date_string) ==
    date_string # Absent /\ fromisoformat(date_string).raised # NONE

MalformedDate(req) == Malformed(req.start_date) \/ Malformed(req.end_date)

\* C24: the waiting-time endpoint answers 400 with the detail of its
\* validation, not 500, when view_type is neither hourly nor daily and when
\* start_date or end_date is no ISO date.
C24_WaitingTime400 ==
    (/\ request.endpoint = "waiting-time"
     /\ request.view_type \notin {"hourly", "daily"} \/ MalformedDate(request))
    => /\ response.status = 400
       /\ response.detail \in {"Invalid view_type. Must be hourly or daily",
                               "Invalid start_date format. Use YYYY-MM-DD",
                               "Invalid end_date format. Use YYYY-MM-DD"}

C24_Witness ==
    /\ request.endpoint = "waiting-time"
    /\ request.view_type = "daily"
    /\ request.start_date = <<2025, 1, 3>>
    /\ Malformed(request.end_date)
    /\ events # EmptyBag
    /\ response.status = 400

\* the request names a value its enumerated parameter does not support
Unsupported(req) ==
    CASE req.endpoint = "dwell-time-analytics"
           -> req.group_by \notin {"person", "camera"}
      [] req.endpoint = "aggregated-dwell-time"
           -> req.group_by \notin {"person_id", "camera_description"}
      [] req.endpoint = "occupancy-analytics"
           -> req.time_period \notin {"hour", "day", "week"}
      [] req.endpoint = "dwell-time-time-series"
           -> \/ req.view_type \notin {"hourly", "daily"}
              \/ req.metric_type \notin {"average", "total"}
              \/ req.breakdown \notin {"none", "gender", "age", "gender_age"}
      [] OTHER -> FALSE

\* C27: the dwell-time-analytics, aggregated-dwell-time,
\* dwell-time-time-series and occupancy-analytics endpoints answer 400 when
\* an enumerated parameter has an unsupported value or a date parameter is
\* no ISO date.
C27_Validation400 ==
    (/\ request.endpoint \in {"dwell-time-analytics", "aggregated-dwell-time",
                              "dwell-time-time-series", "occupancy-analytics"}
     /\ Unsupported(request) \/ MalformedDate(request))
    => response.status = 400

\* the answer of a time-series or store-ranking endpoint to the request req
\* over the rows of table
Answer(table, req) ==
    CASE req.endpoint = "dwell-time-time-series"
           -> get_dwell_time_time_series_dated(table, req.view_type,
                  req.metric_type, req.breakdown, req.start_date, req.end_date,
                  req.today)
      [] req.endpoint = "foot-traffic-time-series"
           -> get_foot_traffic_time_series_dated(table, req.view_type,
                  req.breakdown, req.start_date, req.end_date, req.today)
      [] req.endpoint = "store-rankings"
           -> get_store_rankings(table, req.metric, req.start_date, req.end_date,
                                 req.today)

\* the rows of table started at start_dt or later
NotBefore(table, start_dt) ==
    SelectSeq(table, LAMBDA row : StartedAt(row) >= start_dt)

-----------------------------------------------------------------------------
(* The session_id of the emitted sessions (SpecMatch) *)

\* C25: session_id is injective over the session key: a session the run
\* emits shares its session_id with no session of another person, camera or
\* entry time, so that _store_sessions, storing the run's sessions into an
\* empty table, leaves a row for each of them.
C25_SessionIdInjective ==
    pc = "done" =>
        /\ \A i \in 1..Len(result) :
             \A k \in 1..Len(GroupKeys), t \in Times :
                session_id(GroupKeys[k][1], GroupKeys[k][2], [timestamp |-> t])
                      = result[i].session_id
                   => /\ GroupKeys[k][1] = result[i].person_id
                      /\ GroupKeys[k][2] = result[i].camera_id
                      /\ t = result[i].entry_time
        /\ \A flush \in BOOLEAN :
             LET stored == _store_sessions(<<>>, result, flush)
             IN  ~stored.raised
                    => \A i \in 1..Len(result) :
                          \E j \in 1..Len(stored.table) :
                             /\ SameKey(stored.table[j], result[i])
                             /\ stored.table[j].exit_time = result[i].exit_time

-----------------------------------------------------------------------------
(* SpecConcurrent: two calls of calculate_dwell_times at the same time,     *)
(* each in a transaction of its own (READ COMMITTED), _store_sessions taken *)
(* one query, one assignment and one commit at a time. Both calls take      *)
(* their sessions in the same order (ORDER BY of line 31), so neither waits *)
(* for a row the other waits for.                                           *)

MaxConcurrentEvents == 3   \* rows of camera_events under SpecConcurrent
MaxCalls == 2              \* calls each worker makes

Workers == {1, 2}

Other(w) == CHOOSE o \in Workers : o # w

\* the windows of the calls: each one overlaps each other
Windows == {<<NULL, NULL>>, <<NULL, 2>>, <<1, NULL>>}

\* a worker between two calls: no transaction open
Idle(calls) ==
    [pc |-> "idle", calls |-> calls, todo |-> <<>>, i |-> 0,
     existing |-> [kind |-> "none", k |-> 0],
     added |-> <<>>, flushed |-> 0, changed |-> {}, locked |-> {}]

\* what a worker's transaction has written and not committed
Uncommitted(w) ==
    {workers[w].added[k].session_id : k \in 1..workers[w].flushed}

SessionIds(B) == {row.session_id : row \in BagToSet(B)}

\* the flush of worker w: the INSERT of the rows added since the last flush
\* and the UPDATE of the rows assigned since. An INSERT of a session_id that a
\* committed row or a row of the same transaction holds violates
\* unique=True (camera_events.py line 101); one that the other transaction
\* inserted and has not committed waits for that transaction, and so does an
\* UPDATE of a row the other transaction updated.
FlushRaises(w) ==
    LET me == workers[w]
        fresh == {k \in (me.flushed + 1)..Len(me.added) : TRUE}
    IN  \E k \in fresh :
           \/ me.added[k].session_id \in SessionIds(sessions)
           \/ \E j \in 1..(k - 1) : me.added[j].session_id = me.added[k].session_id

FlushWaits(w) ==
    LET me == workers[w]
        other == workers[Other(w)]
    IN  \/ \E k \in (me.flushed + 1)..Len(me.added) :
              me.added[k].session_id \in Uncommitted(Other(w))
        \/ \E u \in me.changed : u.session_id \in other.locked

Flushed(me) ==
    [me EXCEPT !.flushed = Len(me.added),
               !.locked = me.locked \cup {u.session_id : u \in me.changed}]

\* the exception leaves calculate_dwell_times as ProcessingError (line 67);
\* the transaction is rolled back when the Session is closed
Raise(me) == [Idle(me.calls) EXCEPT !.pc = "raised"]

\* lines 23-51: the call starts, reads the events of its window and computes
\* its sessions; without events it returns at once (lines 33-35)
StartCall(w) ==
    /\ workers[w].pc \in {"idle", "returned", "raised"}
    /\ workers[w].calls < MaxCalls
    /\ \E window \in Windows :
         LET events_df == EventsFrame(EventRows(events), window[1], window[2])
             session_list == _calculate_sessions(events_df)
             me == Idle(workers[w].calls + 1)
         IN  workers' = [workers EXCEPT ![w] =
                 IF events_df = <<>> THEN [me EXCEPT !.pc = "returned"]
                 ELSE [me EXCEPT !.todo = session_list, !.i = 1,
                                 !.pc = IF session_list = <<>> THEN "commit"
                                        ELSE "check"]]
    /\ UNCHANGED <<events, sessions, autoflush, run, cache, matchVars, apiVars>>

\* lines 132-134: the query for the session_id, after the flush autoflush
\* makes. It sees the committed rows and the rows its own transaction wrote.
CheckExists(w) ==
    /\ workers[w].pc = "check"
    /\ LET me == workers[w]
           sid == me.todo[me.i].session_id
       IN  IF autoflush /\ FlushRaises(w)
           THEN workers' = [workers EXCEPT ![w] = Raise(me)]
           ELSE /\ autoflush => ~FlushWaits(w)
                /\ LET seen == IF autoflush THEN Len(me.added) ELSE me.flushed
                       own == {k \in 1..seen : me.added[k].session_id = sid}
                   IN  workers' = [workers EXCEPT ![w] =
                          [(IF autoflush THEN Flushed(me) ELSE me) EXCEPT
                              !.pc = "write",
                              !.existing =
                                  IF own # {}
                                  THEN [kind |-> "added", k |-> CHOOSE k \in own : TRUE]
                                  ELSE IF sid \in SessionIds(sessions)
                                  THEN [kind |-> "committed", k |-> 0]
                                  ELSE [kind |-> "none", k |-> 0]]]
    /\ UNCHANGED <<events, sessions, autoflush, run, cache, matchVars, apiVars>>

\* lines 136-151: the row found is assigned its new exit_time and
\* dwell_duration, or a new row is added
InsertOrUpdate(w) ==
    /\ workers[w].pc = "write"
    /\ LET me == workers[w]
           session_data == me.todo[me.i]
           next == [me EXCEPT !.i = me.i + 1,
                              !.pc = IF me.i = Len(me.todo) THEN "commit"
                                     ELSE "check"]
       IN  workers' = [workers EXCEPT ![w] =
              IF me.existing.kind = "committed"
              THEN [next EXCEPT !.changed =
                       {u \in me.changed : u.session_id # session_data.session_id}
                       \cup {[session_id |-> session_data.session_id,
                              exit_time |-> session_data.exit_time,
                              dwell_duration |-> session_data.dwell_duration]}]
              ELSE IF me.existing.kind = "added"
              THEN [next EXCEPT !.added[me.existing.k] =
                       [@ EXCEPT !.exit_time = session_data.exit_time,
                                 !.dwell_duration = session_data.dwell_duration]]
              ELSE [next EXCEPT !.added = Append(me.added, PersonSession(session_data))]]
    /\ UNCHANGED <<events, sessions, autoflush, run, cache, matchVars, apiVars>>

\* the committed table after worker `me` commits: its assignments applied to
\* the rows they were made to, its added rows appended
Committed(B, me) ==
    LET Assigned(row) ==
            IF \E u \in me.changed : u.session_id = row.session_id
            THEN LET u == CHOOSE u \in me.changed : u.session_id = row.session_id
                 IN  [row EXCEPT !.exit_time = u.exit_time,
                                 !.dwell_duration = u.dwell_duration]
            ELSE row
    IN  SeqToBag([k \in 1..Len(BagToSeq(B)) |-> Assigned(BagToSeq(B)[k])])
           (+) SeqToBag(me.added)

\* line 153: self.db.commit() flushes what is left and commits
Commit(w) ==
    /\ workers[w].pc = "commit"
    /\ LET me == workers[w]
       IN  IF FlushRaises(w)
           THEN /\ workers' = [workers EXCEPT ![w] = Raise(me)]
                /\ UNCHANGED sessions
           ELSE /\ ~FlushWaits(w)
                /\ sessions' = Committed(sessions, me)
                /\ workers' = [workers EXCEPT ![w] =
                      [me EXCEPT !.pc = "update", !.added = <<>>, !.flushed = 0,
                                 !.changed = {}, !.locked = {}]]
    /\ UNCHANGED <<events, autoflush, run, cache, matchVars, apiVars>>

\* lines 56-63: _update_events_with_dwell_times with its commit, the summary,
\* the return
UpdateAndReturn(w) ==
    /\ workers[w].pc = "update"
    /\ events' = EventBag(_update_events_with_dwell_times(EventRows(events),
                                                          workers[w].todo))
    /\ workers' = [workers EXCEPT ![w].pc = "returned"]
    /\ UNCHANGED <<sessions, autoflush, run, cache, matchVars, apiVars>>

\* the tables of at most MaxConcurrentEvents events of one pair
RECURSIVE ConcurrentTables(_)
ConcurrentTables(n) ==
    IF n = 0 THEN {EmptyBag}
    ELSE {B (+) SetToBag({IngestedEvent(GroupKeys[1], ty, t)}) :
            B \in ConcurrentTables(n - 1), ty \in EventTypes, t \in Times}

InitConcurrent ==
    /\ events \in UNION {ConcurrentTables(n) : n \in 0..MaxConcurrentEvents}
    /\ sessions = EmptyBag
    /\ autoflush \in BOOLEAN
    /\ run = NoRun
    /\ cache = {}
    /\ workers = [w \in Workers |-> Idle(0)]
    /\ request = NoRequest
    /\ response = NoResponse
    /\ group = GroupKeys[1]
    /\ entries = <<>>
    /\ exits = <<>>
    /\ entry_idx = 0
    /\ exit_idx = 0
    /\ pairs = <<>>
    /\ pc = "idle"
    /\ result = <<>>
    /\ discarded = {}
    /\ iterations = 0

NextConcurrent ==
    \E w \in Workers :
       \/ StartCall(w)
       \/ CheckExists(w)
       \/ InsertOrUpdate(w)
       \/ Commit(w)
       \/ UpdateAndReturn(w)

SpecConcurrent == InitConcurrent /\ [][NextConcurrent]_vars

\* the row of table B that persists the session: its key and its values
Persisted(B, session) ==
    \E row \in BagToSet(B) :
       /\ row.session_id = session.session_id
       /\ SameKey(row, session)
       /\ row.exit_time = session.exit_time
       /\ row.dwell_duration = session.dwell_duration

\* worker w commits in this step
Commits(w) == workers[w].pc = "commit" /\ workers'[w].pc = "update"

\* C26: under every interleaving of two calls, person_sessions never holds
\* two rows with one session_id, and the commit of a call that does not end
\* in ProcessingError leaves every session of the call in person_sessions.
C26_ConcurrentRuns ==
    /\ [](UniqueSessionIds(BagToSeq(sessions)))
    /\ [][\A w \in Workers :
             Commits(w) => \A k \in 1..Len(workers[w].todo) :
                              Persisted(sessions', workers[w].todo[k])]_vars

-----------------------------------------------------------------------------
(* Termination of the matcher *)

\* SpecMatch with the progress of a running call: the interpreter goes on
\* to the next iteration, and to the return, as long as there is one
SpecMatchFair == InitMatch /\ [][NextMatch]_vars /\ WF_vars(NextMatch)

\* C30: the loop of _match_entries_exits ends: the cursors stay within
\* 0..len(entries) and 0..len(exits), every iteration moves the entry cursor,
\* the exit cursor or both forward, there are at most len(entries) +
\* len(exits) iterations, and the sessions are returned.
C30_LoopTerminates ==
    /\ [](/\ entry_idx \in 0..Len(entries)
          /\ exit_idx \in 0..Len(exits)
          /\ iterations <= Len(entries) + Len(exits))
    /\ [][iterations' # iterations
             => /\ entry_idx' >= entry_idx
                /\ exit_idx' >= exit_idx
                /\ entry_idx' + exit_idx' > entry_idx + exit_idx]_vars
    /\ <>(pc = "done")

\* a run that needed one iteration for every row but one
C30_Witness ==
    /\ pc = "done"
    /\ iterations >= 3
    /\ iterations = Len(entries) + Len(exits) - 1
====
